---- MODULE Spec2Model ----
(***************************************************************************)
(* A model of the crawl/fetch core of the HTML extractor:                  *)
(*   - Core.fetch / Core._throttle / Core._respect_robots                   *)
(*       (crewai_html_extractor/scraper/core.py)                           *)
(*   - the crawl loop of crawl_cli.main and its helpers                     *)
(*       (crewai_html_extractor/crawl_cli.py)                              *)
(*   - the extractor pipeline run_extractors                                *)
(*       (crewai_html_extractor/crawl_cli.py)                              *)
(*   - Orchestrator.run_once                                                *)
(*       (crewai_html_extractor/scraper/orchestrator.py)                   *)
(*   - dedupe_entities (crewai_html_extractor/crawl_cli.py)                 *)
(*   - Core._throttle called by several workers on one Core                 *)
(*   - classify_entity and build_item's use of it                           *)
(*       (crewai_html_extractor/scraper/extractors/tourism.py)             *)
(*   - main, its exit code, and parse_sitemap (main_site_filtered.py)       *)
(*   - normalize_url (crawl_cli.py and main_site_filtered.py)               *)
(* Time is counted in whole seconds.  A URL is the record of the parts     *)
(* urlparse gives: [scheme, netloc, path].                                 *)
(***************************************************************************)
EXTENDS Integers, Sequences, FiniteSets, TLC

VARIABLES
    \* ---- Core (the Fetcher) ----
    min_delay_s,            \* Core.min_delay_s
    max_delay_s,            \* Core.max_delay_s
    max_retries,            \* Core.max_retries
    use_cache,              \* TRUE iff the session is a requests_cache.CachedSession
    harness,                \* the environment driving the Fetcher: "attempts" or "throttle"
    now,                    \* time.time()
    robots_cache,           \* Core._robots_cache: origin -> "None" or the crawl-delay
    last_fetch_per_host,    \* Core._last_fetch_per_host: netloc -> timestamp
    http_cache,             \* the session's response cache: the URLs with a fresh entry
    fpc,                    \* where the current fetch call is
    furl,                   \* the url of the current fetch call
    attempt,                \* fetch's local attempt
    last_err,               \* fetch's local last_err
    calls,                  \* number of fetch calls made so far
    resps,                  \* history: what session.get gave fetch in this call
    gets,                   \* history: network GET requests issued in this call
    throttle_prev,          \* history: the host's timestamp _throttle read ("None": absent)
    throttle_wait,          \* history: to_wait of this call's _throttle
    first_req_at,           \* history: time of the first session.get of this call
    robots_reads,           \* history: the origins whose robots.txt was requested, in order
    \* ---- crawl_cli.main (the crawl loop) ----
    seeds,                  \* args.seed
    max_pages,              \* args.max_pages
    allow_rx,               \* allow_rx: [on, paths]; on = FALSE is None
    deny_rx,                \* deny_rx: [on, paths]; on = FALSE is None
    allowed_hosts,          \* allowed_hosts
    q,                      \* the deque q
    seen_urls,              \* seen_urls
    pages_crawled,          \* pages_crawled
    all_entities,           \* all_entities
    pages_log,              \* pages_log
    cpc,                    \* where main is: "loop", "fetch", "links", "done"
    url,                    \* the url just dequeued
    q_disc,                 \* history: for each entry of q, was it a discovered link
    dequeues,               \* history: number of q.popleft() so far
    fetched,                \* history: the urls core.fetch was called with, in order
    failed,                 \* history: the urls whose core.fetch raised
    enqueued,               \* history: the links the last iteration put into q
    \* ---- run_extractors (one page through the pipeline) ----
    xpc,                    \* the extractor to run next (1..4), 5 after the return
    x_items,                \* items
    x_outs,                 \* history: what each extractor did
    x_called,               \* history: the extractors called, in order
    \* ---- Orchestrator.run_once ----
    o_url,                  \* the argument url, then final_url
    opc,                    \* where run_once is: "fetch", an extractor, "network", "returned"
    enable_network,         \* the argument enable_network
    HAS_NETWORK,            \* TRUE iff the network extractor could be imported
    o_items,                \* run_once's local items
    method_chain,           \* run_once's local method_chain
    record,                 \* the dict run_once returned
    o_fetch_raised,         \* history: did core.fetch raise
    o_outs,                 \* history: what each extractor called did
    \* ---- dedupe_entities ----
    dpc,                    \* 0: not called, 1: called once, 2: called on its own result
    d_entities,             \* the argument entities
    d_out,                  \* dedupe_entities(entities)
    d_again,                \* dedupe_entities(dedupe_entities(entities))
    \* ---- workers sharing one Core, all fetching from one host ----
    w_min_delay_s,          \* the Core's min_delay_s (= max_delay_s: no jitter)
    w_now,                  \* time.time()
    w_last_fetch,           \* the Core's _last_fetch_per_host: netloc -> timestamp
    wpc,                    \* per worker: "idle", "sleep" (inside _throttle), "request"
    w_last,                 \* per worker: _throttle's local last
    w_wake,                 \* per worker: the time its time.sleep ends
    w_calls,                \* per worker: fetch calls started
    w_reqs,                 \* history: [worker, at, last] of every request to the host
    \* ---- classify_entity ----
    kpc,                    \* 0: not called, 1: classify_entity returned, 2: build_item did
    raw_type,               \* the argument raw_type, a list of declared types
    c_url,                  \* the argument url: the patterns it matches
    c_name,                 \* the argument name: the keyword patterns it matches
    c_description,          \* the argument description: the keyword patterns it matches
    c_full_text,            \* the argument full_text: the keyword patterns it matches
    expected_segment,       \* build_item's expected_segment ("None": none)
    c_result,               \* (segment, subtype, source, score) returned
    \* ---- main_site_filtered.main ----
    mpc,                    \* where main is: "run", "combined", "exit"
    args_site,              \* TRUE iff --site was given (FALSE: --urls, --file or --html)
    m_inputs,               \* number of inputs: pages the crawl dequeues, or items
    m_log,                  \* history: how each processed input ended
    ok_count,               \* ok_count
    fail_count,             \* fail_count
    exit_code,              \* the value main returns (-1: not yet)
    \* ---- main_site_filtered.parse_sitemap ----
    spc,                    \* 0: not called, 1: returned
    s_doc,                  \* the document at the sitemap url, nested sitemaps included
    s_limit,                \* the argument limit
    s_out,                  \* the list returned
    \* ---- normalize_url ----
    npc,                    \* 0: not called, 1: crawl_cli's returned, 2: main_site_filtered's
    n_base,                 \* the argument base
    n_href,                 \* the argument href
    allow_query,            \* the argument allow_query (main_site_filtered only)
    n_out,                  \* the value returned
    \* ---- tourism.extract_tourism_entities ----
    tpc,                    \* where extract_tourism_entities is: "scan", "dedupe", "returned", "raised"
    t_nodes,                \* the JSON-LD nodes of the page, in document order
    t_i,                    \* number of nodes the JSON-LD loop has gone through
    t_items,                \* items
    t_out,                  \* the list returned (deduped)
    \* ---- html_fetcher.fetch_html ----
    hpc,                    \* where fetch_html is: "try", "returned", "raised"
    h_url,                  \* the argument url
    max_redirects,          \* the argument max_redirects
    h_chain,                \* 1: _try(url), 2: _try(alt) after an SSLError
    h_seen,                 \* seen of the running _try
    h_current,              \* current of the running _try
    h_iter,                 \* iterations of the for loop of the running _try begun
    h_reqs,                 \* history: the sess.get calls made, by chain and canonical url
    h_err,                  \* the exception fetch_html raised ("None": none)
    \* ---- main_site_filtered.crawl_site ----
    vpc,                    \* where crawl_site is: "loop", "fetch", "links", "returned"
    v_start_url,            \* the argument start_url
    v_seed_urls,            \* seed_urls: start_url and the urls of the sitemaps
    v_max_pages,            \* the argument max_pages
    v_contains,             \* the filter --contains, as the paths it matches
    v_queue,                \* queue (its right end is the end of the sequence)
    v_visited,              \* visited
    v_url,                  \* url, the one last popped
    v_fetched,              \* history: the urls fetch_html was called for
    v_pops                  \* history: number of queue.pop() calls

fetchVars == <<min_delay_s, max_delay_s, max_retries, use_cache, harness, now, robots_cache,
               last_fetch_per_host, http_cache, fpc, furl, attempt, last_err, calls,
               resps, gets, throttle_prev, throttle_wait, first_req_at, robots_reads>>

crawlVars == <<seeds, max_pages, allow_rx, deny_rx, allowed_hosts, q, seen_urls,
               pages_crawled, all_entities, pages_log, cpc, url, q_disc, dequeues,
               fetched, failed, enqueued>>

extractVars == <<xpc, x_items, x_outs, x_called>>

orchVars == <<o_url, opc, enable_network, HAS_NETWORK, o_items, method_chain, record,
              o_fetch_raised, o_outs>>

dedupeVars == <<dpc, d_entities, d_out, d_again>>

workerVars == <<w_min_delay_s, w_now, w_last_fetch, wpc, w_last, w_wake, w_calls, w_reqs>>

classifyVars == <<kpc, raw_type, c_url, c_name, c_description, c_full_text,
                  expected_segment, c_result>>

cliVars == <<mpc, args_site, m_inputs, m_log, ok_count, fail_count, exit_code>>

sitemapVars == <<spc, s_doc, s_limit, s_out>>

normVars == <<npc, n_base, n_href, allow_query, n_out>>

tourVars == <<tpc, t_nodes, t_i, t_items, t_out>>

htmlVars == <<hpc, h_url, max_redirects, h_chain, h_seen, h_current, h_iter, h_reqs,
              h_err>>

siteVars == <<vpc, v_start_url, v_seed_urls, v_max_pages, v_contains, v_queue, v_visited,
              v_url, v_fetched, v_pops>>

newVars == <<normVars, tourVars, htmlVars, siteVars>>

restVars == <<orchVars, dedupeVars, workerVars, classifyVars, cliVars, sitemapVars, newVars>>

vars == <<fetchVars, crawlVars, extractVars, restVars>>

(***************************************************************************)
(* Bounds of the model.                                                    *)
(***************************************************************************)
MaxRetriesBound == 1    \* max_retries is drawn from 0..MaxRetriesBound
MaxCrawlDelay == 3      \* largest Crawl-delay a robots.txt declares
MaxCalls == 2           \* fetch calls in one behaviour

MaxCrawlCalls == 4      \* fetch calls of one crawl: one for each url there is
MaxElapse == 3          \* longest pause between two fetch calls
Epoch == 50             \* time.time() when the process starts (far beyond any delay)

Max(a, b) == IF a >= b THEN a ELSE b

RECURSIVE Pow(_, _)
Pow(b, n) == IF n = 0 THEN 1 ELSE b * Pow(b, n - 1)

NoneVal == "None"

(***************************************************************************)
(* URLs.                                                                   *)
(***************************************************************************)
Url(s, h, p) == [scheme |-> s, netloc |-> h, path |-> p]

FetchUrls == { Url("http", "a.test", "/"), Url("https", "a.test", "/"),
               Url("http", "b.test", "/") }

Netloc(u) == u.netloc

Origin(u) == <<u.scheme, u.netloc>>

(***************************************************************************)
(* What session.get hands to fetch: a response, or an exception.           *)
(* retry_after is the Retry-After header: absent, an integer, or some      *)
(* other text (an HTTP date).                                              *)
(***************************************************************************)
RaAbsent == [present |-> FALSE, int |-> FALSE, value |-> 0]

RaText == [present |-> TRUE, int |-> FALSE, value |-> 0]

RaInt(n) == [present |-> TRUE, int |-> TRUE, value |-> n]

RetryAfters == {RaAbsent, RaText, RaInt(0), RaInt(3)}

Response(st, ra, fc) ==
    [kind |-> "response", status |-> st, retry_after |-> ra, from_cache |-> fc]

\* session.get raised: there is no response (status 0).
Raised ==
    [kind |-> "exception", status |-> 0, retry_after |-> RaAbsent, from_cache |-> FALSE]

OkStatuses == {200, 304}

RetryAfterStatuses == {429, 503}

OtherStatuses == {204, 404, 500}

(***************************************************************************)
(* The environment.  Under the "attempts" harness one fetch call meets     *)
(* every kind of answer; under the "throttle" harness several fetch calls  *)
(* to three URLs (two origins of one host, and another host) meet a        *)
(* transport that answers 200 or 503 or fails; under the "crawl" harness   *)
(* the calls are those of the crawl loop, against that same transport.     *)
(***************************************************************************)
FullTransport ==
    {Response(st, RaAbsent, FALSE) : st \in OkStatuses \cup {403} \cup OtherStatuses}
        \cup {Response(st, ra, FALSE) : st \in RetryAfterStatuses, ra \in RetryAfters}
        \cup {Raised}

Transport ==
    IF harness = "attempts"
    THEN FullTransport
    ELSE {Response(200, RaAbsent, FALSE), Response(503, RaAbsent, FALSE), Raised}

Targets == IF harness = "attempts" THEN {Url("http", "a.test", "/")} ELSE FetchUrls

CallBudget ==
    IF harness = "attempts" THEN 1
    ELSE IF harness = "throttle" THEN MaxCalls
    ELSE MaxCrawlCalls

(***************************************************************************)
(* Core._respect_robots.  A robots_cache entry is [rp, crawl_delay]:       *)
(* rp = FALSE is the cached None of a robots.txt that could not be read,   *)
(* crawl_delay = 0 a robots.txt without a Crawl-delay for the agent.       *)
(***************************************************************************)
RobotsOutcomes ==
    {[rp |-> FALSE, crawl_delay |-> 0]}
        \cup {[rp |-> TRUE, crawl_delay |-> d] : d \in {0, MaxCrawlDelay}}

\* A slip: a cached None counts as no entry.
RobotsCachedIfRead(u) == Origin(u) \in DOMAIN robots_cache /\ robots_cache[Origin(u)].rp

\* host in self._robots_cache
RobotsCached(u) == Origin(u) \in DOMAIN robots_cache

RobotsCacheAfter(u, read) ==
    IF RobotsCached(u)
    THEN robots_cache
    ELSE [o \in DOMAIN robots_cache \cup {Origin(u)} |->
             IF o = Origin(u) THEN read ELSE robots_cache[o]]

RespectRobots(cache, u) ==
    IF cache[Origin(u)].rp THEN cache[Origin(u)].crawl_delay ELSE 0

(***************************************************************************)
(* Core._throttle.                                                         *)
(***************************************************************************)
\* A slip in _throttle: the smaller of the two delays.
BaseDelayMin(crawl_delay) == IF min_delay_s <= crawl_delay THEN min_delay_s ELSE crawl_delay

BaseDelay(crawl_delay) == Max(min_delay_s, crawl_delay)

LastOf(host) ==
    IF host \in DOMAIN last_fetch_per_host THEN last_fetch_per_host[host] ELSE 0

ToWait(host, min_gap) == Max(0, LastOf(host) + min_gap - now)

Throttle(u, read, jitter) ==
    LET cache == RobotsCacheAfter(u, read)
        to_wait == ToWait(Netloc(u), BaseDelay(RespectRobots(cache, u)) + jitter)
    IN  /\ robots_cache' = cache
        /\ robots_reads' = IF RobotsCached(u) THEN robots_reads
                                             ELSE Append(robots_reads, Origin(u))
        /\ now' = now + to_wait
        /\ last_fetch_per_host' =
               [h \in DOMAIN last_fetch_per_host \cup {Netloc(u)} |->
                   IF h = Netloc(u) THEN now + to_wait ELSE last_fetch_per_host[h]]
        /\ throttle_wait' = to_wait
        /\ throttle_prev' =
               IF Netloc(u) \in DOMAIN last_fetch_per_host
               THEN last_fetch_per_host[Netloc(u)] ELSE -1

(***************************************************************************)
(* Core.fetch.                                                             *)
(***************************************************************************)
\* A slip in fetch: a loop that leaves one attempt out.
LoopCondStrict(att) == att < max_retries

LoopCond(att) == att <= max_retries

Backoff(att) == min_delay_s * Pow(2, att)

Backoff403(att) == (min_delay_s * Pow(3, att)) \div Pow(2, att)

\* A slip in fetch: the backoff counted from attempt 0.
RetryAfterWaitFromZero(ra, att) == IF ra.present /\ ra.int THEN ra.value ELSE Backoff(att - 1)

RetryAfterWait(ra, att) == IF ra.present /\ ra.int THEN ra.value ELSE Backoff(att)

ConfigUnchanged ==
    UNCHANGED <<min_delay_s, max_delay_s, max_retries, use_cache, harness,
                crawlVars, extractVars, restVars>>

\* fetch(url) is called: _throttle runs, then the attempt loop is entered.
FetchCall(u) ==
    /\ fpc \in {"idle", "returned", "raised"}
    /\ calls < CallBudget
    /\ \E read \in (IF RobotsCached(u)
                    THEN {robots_cache[Origin(u)]} ELSE RobotsOutcomes),
          jitter \in 0..(max_delay_s - min_delay_s) :
            Throttle(u, read, jitter)
    /\ furl' = u
    /\ attempt' = 0
    /\ last_err' = NoneVal
    /\ calls' = calls + 1
    /\ resps' = <<>>
    /\ gets' = 0
    /\ first_req_at' = -1
    /\ fpc' = IF LoopCond(0) THEN "loop" ELSE "raised"
    /\ ConfigUnchanged
    /\ UNCHANGED http_cache

\* One session.get: what every attempt does first.
Issue(resp, network) ==
    /\ fpc = "loop"
    /\ attempt' = attempt + 1
    /\ resps' = Append(resps, resp)
    /\ gets' = IF network THEN gets + 1 ELSE gets
    /\ first_req_at' = IF attempt = 0 THEN now ELSE first_req_at
    /\ calls' = calls
    /\ furl' = furl
    /\ ConfigUnchanged
    /\ UNCHANGED <<robots_cache, last_fetch_per_host, throttle_prev, throttle_wait,
                   robots_reads>>

\* The attempt ends in "continue" or in the except branch: the loop test follows.
NextAttempt(err, slept) ==
    /\ last_err' = err
    /\ now' = now + slept
    /\ fpc' = IF LoopCond(attempt + 1) THEN "loop" ELSE "raised"
    /\ UNCHANGED http_cache

Return(store) ==
    /\ fpc' = "returned"
    /\ http_cache' = IF store /\ use_cache THEN http_cache \cup {furl} ELSE http_cache
    /\ UNCHANGED <<last_err, now>>

\* The except branch of the attempt.
Except(err, jitter) == NextAttempt(err, Backoff(attempt + 1) + jitter)

\* The session answers from its cache: no request leaves the process.
GetCacheHit ==
    /\ use_cache /\ furl \in http_cache
    /\ Issue(Response(200, RaAbsent, TRUE), FALSE)
    /\ Return(FALSE)

\* 200 or 304 from the network.
GetOk ==
    \E r \in Transport :
        /\ r.kind = "response" /\ r.status \in OkStatuses
        /\ ~(use_cache /\ furl \in http_cache)
        /\ Issue(r, TRUE)
        /\ Return(r.status = 200)

\* 429 or 503: sleep Retry-After or the exponential backoff, plus jitter.
Get429or503 ==
    \E r \in Transport, jitter \in 0..1 :
        /\ r.kind = "response" /\ r.status \in RetryAfterStatuses
        /\ ~(use_cache /\ furl \in http_cache)
        /\ Issue(r, TRUE)
        /\ NextAttempt(last_err, RetryAfterWait(r.retry_after, attempt + 1) + jitter)

\* 403: the gentler backoff.
Get403 ==
    \E r \in Transport, jitter \in 0..1 :
        /\ r.kind = "response" /\ r.status = 403
        /\ ~(use_cache /\ furl \in http_cache)
        /\ Issue(r, TRUE)
        /\ NextAttempt(last_err, Backoff403(attempt + 1) + jitter)

\* Any other status: raise_for_status raises HTTPError for 4xx and 5xx, inside
\* the try, so the except branch takes it; below 400 the response is returned.
GetOther ==
    \E r \in Transport, jitter \in 0..1 :
        /\ r.kind = "response"
        /\ r.status \notin OkStatuses \cup RetryAfterStatuses \cup {403}
        /\ ~(use_cache /\ furl \in http_cache)
        /\ Issue(r, TRUE)
        /\ IF r.status >= 400 THEN Except("HTTPError", jitter) ELSE Return(FALSE)

\* session.get raises (connection error, timeout).
GetException ==
    \E r \in Transport, jitter \in 0..1 :
        /\ r.kind = "exception"
        /\ ~(use_cache /\ furl \in http_cache)
        /\ Issue(r, TRUE)
        /\ Except("ConnectionError", jitter)

\* Time passes between two fetch calls.
Elapse ==
    \E d \in 1..MaxElapse :
        /\ fpc \in {"returned", "raised"}
        /\ calls < CallBudget
        /\ now' = now + d
        /\ fpc' = "idle"
        /\ ConfigUnchanged
        /\ UNCHANGED <<robots_cache, last_fetch_per_host, http_cache, furl, attempt,
                       last_err, calls, resps, gets, throttle_prev, throttle_wait,
                       first_req_at, robots_reads>>

\* A cache entry expires (expire_after).
CacheExpire ==
    \E u \in http_cache :
        /\ fpc \in {"returned", "raised", "idle"}
        /\ calls < CallBudget
        /\ http_cache' = http_cache \ {u}
        /\ ConfigUnchanged
        /\ UNCHANGED <<now, robots_cache, last_fetch_per_host, fpc, furl, attempt,
                       last_err, calls, resps, gets, throttle_prev, throttle_wait,
                       first_req_at, robots_reads>>

\* The other components, at rest.
CrawlIdle ==
    /\ seeds = <<>> /\ max_pages = 0
    /\ allow_rx = [on |-> FALSE, paths |-> {}] /\ deny_rx = [on |-> FALSE, paths |-> {}]
    /\ allowed_hosts = {} /\ q = <<>> /\ seen_urls = {} /\ pages_crawled = 0
    /\ all_entities = <<>> /\ pages_log = <<>> /\ cpc = "done"
    /\ url = Url("http", "a.test", "/") /\ q_disc = <<>> /\ dequeues = 0
    /\ fetched = <<>> /\ failed = {} /\ enqueued = <<>>

ExtractIdle == xpc = 5 /\ x_items = <<>> /\ x_outs = <<>> /\ x_called = <<>>

\* No dict returned yet.
NoRecord == [pending |-> TRUE]

OrchIdle ==
    /\ o_url = Url("http", "a.test", "/") /\ opc = "idle" /\ enable_network = FALSE /\ HAS_NETWORK = FALSE
    /\ o_items = <<>> /\ method_chain = <<>> /\ record = NoRecord
    /\ o_fetch_raised = FALSE /\ o_outs = <<>>

DedupeIdle == dpc = 2 /\ d_entities = <<>> /\ d_out = <<>> /\ d_again = <<>>

WorkersIdle ==
    /\ w_min_delay_s = 1 /\ w_now = 0 /\ w_last_fetch = <<>> /\ wpc = <<>>
    /\ w_last = <<>> /\ w_wake = <<>> /\ w_calls = <<>> /\ w_reqs = <<>>

ClassifyIdle ==
    /\ kpc = 3 /\ raw_type = <<>> /\ c_url = [kw |-> {}, hint |-> "None"]
    /\ c_name = {} /\ c_description = {} /\ c_full_text = {}
    /\ expected_segment = "None"
    /\ c_result = [segment |-> "None", subtype |-> "None", source |-> "None", score |-> 0]

CliIdle ==
    /\ mpc = "idle" /\ args_site = FALSE /\ m_inputs = 0 /\ m_log = <<>>
    /\ ok_count = 0 /\ fail_count = 0 /\ exit_code = -1

SitemapIdle == spc = 2 /\ s_doc = [kind |-> "error"] /\ s_limit = 0 /\ s_out = <<>>

\* A url by the parts urlparse gives; scheme "None" stands for None.
NoUrl ==
    [scheme |-> "None", netloc |-> "", path |-> "", params |-> "", query |-> "",
     fragment |-> ""]

NormIdle ==
    /\ npc = 3 /\ n_base = NoUrl /\ n_href = NoUrl /\ allow_query = FALSE /\ n_out = NoUrl

TourIdle == tpc = "idle" /\ t_nodes = <<>> /\ t_i = 0 /\ t_items = <<>> /\ t_out = <<>>

\* A url of html_fetcher: the labels of its host, the characters of its path,
\* its fragment.
HUrl(netloc, path, fragment) == [netloc |-> netloc, path |-> path, fragment |-> fragment]

HtmlIdle ==
    /\ hpc = "idle" /\ h_url = HUrl(<<>>, <<>>, "") /\ max_redirects = 0 /\ h_chain = 0
    /\ h_seen = {} /\ h_current = HUrl(<<>>, <<>>, "") /\ h_iter = 0 /\ h_reqs = <<>>
    /\ h_err = "None"

SiteIdle ==
    /\ vpc = "idle" /\ v_start_url = Url("http", "a.test", "/") /\ v_seed_urls = <<>>
    /\ v_max_pages = 0 /\ v_contains = [on |-> FALSE, paths |-> {}] /\ v_queue = <<>>
    /\ v_visited = {} /\ v_url = Url("http", "a.test", "/") /\ v_fetched = <<>>
    /\ v_pops = 0

NewIdle == NormIdle /\ TourIdle /\ HtmlIdle /\ SiteIdle

RestIdle ==
    /\ OrchIdle /\ DedupeIdle /\ WorkersIdle /\ ClassifyIdle /\ CliIdle /\ SitemapIdle
    /\ NewIdle

CoreIdle ==
    /\ harness = "none" /\ min_delay_s = 1 /\ max_delay_s = 1 /\ max_retries = 0
    /\ use_cache = FALSE /\ now = Epoch /\ robots_cache = <<>> /\ robots_reads = <<>>
    /\ last_fetch_per_host = <<>> /\ http_cache = {} /\ fpc = "idle"
    /\ furl = Url("http", "a.test", "/") /\ attempt = 0 /\ last_err = NoneVal
    /\ calls = 0 /\ resps = <<>> /\ gets = 0 /\ throttle_prev = -1
    /\ throttle_wait = 0 /\ first_req_at = -1

DelayChoices == {1, 2}

JitterSpans == {0, 1}

InitCore(h) ==
    /\ harness = h
    /\ min_delay_s \in DelayChoices
    /\ \E span \in JitterSpans : max_delay_s = min_delay_s + span
    /\ max_retries \in 0..MaxRetriesBound
    /\ use_cache \in BOOLEAN
    /\ now = Epoch
    /\ robots_cache = <<>>
    /\ robots_reads = <<>>
    /\ last_fetch_per_host = <<>>
    /\ http_cache = {}
    /\ fpc = "idle"
    /\ furl = Url("http", "a.test", "/")
    /\ attempt = 0
    /\ last_err = NoneVal
    /\ calls = 0
    /\ resps = <<>>
    /\ gets = 0
    /\ throttle_prev = -1
    /\ throttle_wait = 0
    /\ first_req_at = -1

FetchAny == \E u \in Targets : FetchCall(u)

(***************************************************************************)
(* SpecFetch: one fetch call against every kind of answer.                 *)
(***************************************************************************)
InitFetch == InitCore("attempts") /\ CrawlIdle /\ ExtractIdle /\ RestIdle

NextFetch ==
    \/ FetchAny
    \/ GetOk
    \/ Get429or503
    \/ Get403
    \/ GetOther
    \/ GetException

SpecFetch == InitFetch /\ [][NextFetch]_vars

(***************************************************************************)
(* SpecThrottle: a sequence of fetch calls on one Fetcher.                 *)
(***************************************************************************)
InitThrottle == InitCore("throttle") /\ CrawlIdle /\ ExtractIdle /\ RestIdle

NextThrottle ==
    \/ FetchAny
    \/ GetCacheHit
    \/ GetOk
    \/ Get429or503
    \/ GetException
    \/ Elapse
    \/ CacheExpire

SpecThrottle == InitThrottle /\ [][NextThrottle]_vars

(***************************************************************************)
(* Claims about Core.fetch and Core._throttle.                             *)
(***************************************************************************)
Is503NoRetryAfter(r) ==
    r.kind = "response" /\ r.status = 503 /\ ~r.retry_after.present

AllAnswers503 == \A i \in 1..Len(resps) : Is503NoRetryAfter(resps[i])

\* C1: when every answer is a 503 without Retry-After, fetch issues exactly
\* max_retries+1 GET requests and then raises: it never returns, never raises
\* earlier and never asks again.
C1_RetryBudget ==
    (calls >= 1 /\ AllAnswers503) =>
        /\ gets = Len(resps)
        /\ gets <= max_retries + 1
        /\ fpc # "returned"
        /\ (fpc = "raised" <=> gets = max_retries + 1)

C1_Witness ==
    /\ fpc = "raised" /\ AllAnswers503
    /\ max_retries >= 1 /\ gets = max_retries + 1

NonRetryable(r) ==
    /\ r.kind = "response"
    /\ r.status \notin {304, 429, 503, 403}
    /\ ~(r.status >= 200 /\ r.status < 300)

\* C2 (as the spec states it): an answer with a non-2xx status other than 304,
\* 429, 503 and 403 ends the attempt loop: no further request follows it.
C2_NonRetryableEndsLoop ==
    \A i \in 1..Len(resps) : NonRetryable(resps[i]) => i = Len(resps)

\* C3: the first request of a fetch to a host is not issued before
\* max(min_delay_s, crawl-delay) has passed since the timestamp the previous
\* fetch to that host left; the first fetch to a host does not wait.
C3_ThrottleGap ==
    (calls >= 1) =>
        LET entry == robots_cache[<<furl.scheme, furl.netloc>>]
            crawl == IF entry.rp THEN entry.crawl_delay ELSE 0
            gap == IF min_delay_s >= crawl THEN min_delay_s ELSE crawl
        IN  /\ (throttle_prev = -1 => throttle_wait = 0)
            /\ (throttle_prev # -1 /\ first_req_at # -1)
                   => first_req_at >= throttle_prev + gap

C3_Witness ==
    /\ calls >= 2 /\ throttle_prev # -1 /\ throttle_wait > 0 /\ first_req_at # -1
    /\ robots_cache[<<furl.scheme, furl.netloc>>].rp
    /\ robots_cache[<<furl.scheme, furl.netloc>>].crawl_delay > min_delay_s

\* C4 (as the spec states it): a fetch answered from the response cache does
\* not wait for the throttle and leaves the host's last-fetch timestamp as it
\* was.
C4_CacheHitLeavesThrottle ==
    (fpc = "returned" /\ resps[Len(resps)].from_cache) =>
        /\ throttle_wait = 0
        /\ IF throttle_prev = -1
           THEN furl.netloc \notin DOMAIN last_fetch_per_host
           ELSE last_fetch_per_host[furl.netloc] = throttle_prev

\* C15: over any sequence of fetch calls robots.txt of an origin is requested
\* at most once; every origin fetched from has a cache entry, one that could
\* not be read is cached too and gives crawl-delay 0, and the requests made
\* are one per cached origin.
C15_RobotsOncePerOrigin ==
    /\ \A i, j \in 1..Len(robots_reads) : i # j => robots_reads[i] # robots_reads[j]
    /\ {robots_reads[i] : i \in 1..Len(robots_reads)} = DOMAIN robots_cache
    /\ calls > 0 => Origin(furl) \in DOMAIN robots_cache
    /\ \A o \in DOMAIN robots_cache :
          ~robots_cache[o].rp => robots_cache[o].crawl_delay = 0
    /\ (calls > 0 /\ ~robots_cache[Origin(furl)].rp) =>
          RespectRobots(robots_cache, furl) = 0

\* Two fetch calls to one origin whose robots.txt could not be read: one
\* request for it was made.
C15_Witness ==
    /\ calls = 2 /\ robots_reads = <<Origin(furl)>>
    /\ ~robots_cache[Origin(furl)].rp
    /\ throttle_prev # -1

(***************************************************************************)
(* Data items.  A text is a sequence of characters, so that strip() and    *)
(* lower() are computed and not assumed.                                   *)
(***************************************************************************)
MaxItems == 2           \* longest list one extractor returns

ItemIds == {1, 2}

ExtractorNames == <<"tourism-jsonld", "tourism-listings", "ine-html", "html-tables">>

ItemType(k) == IF k <= 2 THEN "entity" ELSE "table"

NameOf(n) == IF n = 1 THEN <<"H", "x">> ELSE <<" ", "h", "x">>

Item(k, n) ==
    [type |-> ItemType(k), method |-> ExtractorNames[k], id |-> n,
     name |-> NameOf(n), entity_type |-> "Hotel",
     segment |-> IF k = 1 THEN "accommodation" ELSE "business",
     telephone |-> <<"1">>, email |-> <<>>, url |-> <<>>]

SeqsUpTo(S, n) == UNION {[1..m -> S] : m \in 0..n}

\* What one call of extractor k does: it raises, or it returns a list.
DidRaise == [raised |-> TRUE, items |-> <<>>]

Returned(l) == [raised |-> FALSE, items |-> l]

Outcomes(k) ==
    {DidRaise} \cup {Returned(l) : l \in SeqsUpTo({Item(k, n) : n \in ItemIds}, MaxItems)}

(***************************************************************************)
(* crawl_cli.run_extractors: four try blocks, each extending items.        *)
(***************************************************************************)
\* A slip: the handler of a raising extractor drops what was collected.
TryExtendReset(items, o) == IF o.raised THEN <<>> ELSE items \o o.items

TryExtend(items, o) == IF o.raised THEN items ELSE items \o o.items

RunExtractors(outs) ==
    TryExtend(TryExtend(TryExtend(TryExtend(<<>>, outs[1]), outs[2]), outs[3]), outs[4])

ExtractFrame == UNCHANGED <<fetchVars, crawlVars, restVars>>

RunExtractor(k) ==
    /\ xpc = k
    /\ \E o \in Outcomes(k) :
        /\ x_items' = TryExtend(x_items, o)
        /\ x_outs' = Append(x_outs, o)
    /\ x_called' = Append(x_called, ExtractorNames[k])
    /\ xpc' = k + 1
    /\ ExtractFrame

RunTourismJsonld == RunExtractor(1)

RunTourismListings == RunExtractor(2)

RunIne == RunExtractor(3)

RunHtmlTables == RunExtractor(4)

(***************************************************************************)
(* SpecExtract: one page through run_extractors.                           *)
(***************************************************************************)
InitExtract ==
    /\ CoreIdle /\ CrawlIdle /\ RestIdle
    /\ xpc = 1 /\ x_items = <<>> /\ x_outs = <<>> /\ x_called = <<>>

NextExtract ==
    \/ RunTourismJsonld
    \/ RunTourismListings
    \/ RunIne
    \/ RunHtmlTables

SpecExtract == InitExtract /\ [][NextExtract]_vars

RECURSIVE Flatten(_)
Flatten(ss) == IF ss = <<>> THEN <<>> ELSE Head(ss) \o Flatten(Tail(ss))

\* C10: whatever subset of the four extractors raises, the pipeline's result is
\* the outputs of the others, concatenated in the fixed order, and every
\* extractor is called.
C10_PipelineIsolation ==
    /\ x_items = Flatten([i \in 1..Len(x_outs) |->
                            IF x_outs[i].raised THEN <<>> ELSE x_outs[i].items])
    /\ x_called = SubSeq(ExtractorNames, 1, xpc - 1)
    /\ Len(x_outs) = xpc - 1

C10_Witness ==
    /\ xpc = 5
    /\ x_outs[1].raised /\ ~x_outs[2].raised /\ x_outs[3].raised /\ ~x_outs[4].raised
    /\ Len(x_outs[2].items) = 2 /\ Len(x_outs[4].items) = 1
    /\ Len(x_items) = 3

(***************************************************************************)
(* crawl_cli: patterns, links, de-duplication.                             *)
(* A compiled pattern is [on, paths]: on = FALSE is None, and the pattern  *)
(* matches exactly the URLs whose path is in paths.                        *)
(***************************************************************************)
MaxPagesBound == 2      \* max_pages is drawn from 0..MaxPagesBound
MaxLinks == 2           \* most anchors on one page

CrawlUrls == { Url("http", "a.test", "/"), Url("http", "a.test", "/hotel"),
               Url("http", "a.test", "/doc.pdf"), Url("http", "b.test", "/hotel") }

NoRx == [on |-> FALSE, paths |-> {}]

Rx(paths) == [on |-> TRUE, paths |-> paths]

Search(rx, u) == u.path \in rx.paths

\* KEYWORD_RX: of the paths above it matches "/hotel".
KEYWORD_RX == Rx({"/hotel"})

\* --same-domain is store_true with default True: it is always on.
same_domain == TRUE

\* An anchor of the page: ok = FALSE when normalize_url gives None for its
\* href; text_kw tells whether KEYWORD_RX matches its text or title.
Anchors ==
    {[ok |-> TRUE, url |-> u, text_kw |-> FALSE] : u \in CrawlUrls}
        \cup {[ok |-> TRUE, url |-> Url("http", "a.test", "/"), text_kw |-> TRUE],
              [ok |-> FALSE, url |-> Url("http", "a.test", "/"), text_kw |-> FALSE]}

Score(a) == IF Search(KEYWORD_RX, a.url) \/ a.text_kw THEN 3 ELSE 1

\* extract_links: the (url, score) pairs, sorted by score, highest first (the
\* sort is stable).
IsOk(a) == a.ok

ScoredHigh(l) == l.score = 3

ScoredLow(l) == l.score # 3

ExtractLinks(anchors) ==
    LET valid == SelectSeq(anchors, IsOk)
        links == [i \in 1..Len(valid) |-> [url |-> valid[i].url, score |-> Score(valid[i])]]
    IN  SelectSeq(links, ScoredHigh) \o SelectSeq(links, ScoredLow)

\* dedupe_entities.
LowerChar(c) == IF c = "H" THEN "h" ELSE IF c = "X" THEN "x" ELSE c

Lower(t) == [i \in 1..Len(t) |-> LowerChar(t[i])]

Strip(t) ==
    LET keep == {i \in 1..Len(t) : t[i] # " "}
    IN  IF keep = {} THEN <<>>
        ELSE SubSeq(t, CHOOSE i \in keep : \A j \in keep : i <= j,
                       CHOOSE i \in keep : \A j \in keep : i >= j)

EntityKey(e) ==
    <<Lower(Strip(e.name)), e.entity_type, Strip(e.telephone), Strip(e.email),
      Strip(e.url)>>

RECURSIVE DedupeFrom(_, _, _)
DedupeFrom(entities, seen, out) ==
    IF entities = <<>> THEN out
    ELSE IF EntityKey(Head(entities)) \in seen
         THEN DedupeFrom(Tail(entities), seen, out)
         ELSE DedupeFrom(Tail(entities), seen \cup {EntityKey(Head(entities))},
                         Append(out, Head(entities)))

\* A slip: a later entity takes the place of the one kept for its key.
RECURSIVE DedupeFromReplace(_, _, _)
DedupeFromReplace(entities, seen, out) ==
    IF entities = <<>> THEN out
    ELSE IF EntityKey(Head(entities)) \in seen
         THEN DedupeFromReplace(Tail(entities), seen,
                  [i \in 1..Len(out) |->
                      IF EntityKey(out[i]) = EntityKey(Head(entities))
                      THEN Head(entities) ELSE out[i]])
         ELSE DedupeFromReplace(Tail(entities), seen \cup {EntityKey(Head(entities))},
                                Append(out, Head(entities)))

dedupe_entities_last(entities) == DedupeFromReplace(entities, {}, <<>>)

\* A slip: skipping a duplicate forgets the keys seen so far.
RECURSIVE DedupeFromForget(_, _, _)
DedupeFromForget(entities, seen, out) ==
    IF entities = <<>> THEN out
    ELSE IF EntityKey(Head(entities)) \in seen
         THEN DedupeFromForget(Tail(entities), {}, out)
         ELSE DedupeFromForget(Tail(entities), seen \cup {EntityKey(Head(entities))},
                               Append(out, Head(entities)))

dedupe_entities_forget(entities) == DedupeFromForget(entities, {}, <<>>)

dedupe_entities(entities) == DedupeFrom(entities, {}, <<>>)

(***************************************************************************)
(* crawl_cli.main: the crawl loop.                                         *)
(***************************************************************************)
\* A slip: "<=" in the loop test.
LoopTestOffByOne == q # <<>> /\ pages_crawled <= max_pages

LoopTest == q # <<>> /\ pages_crawled < max_pages

\* A slip: the seen test left out.
AlreadySeenNever(u) == FALSE

AlreadySeen(u) == u \in seen_urls

\* A slip: the allow test left out after the dequeue.
RejectedNoAllow(u) ==
    \/ same_domain /\ Netloc(u) \notin allowed_hosts
    \/ deny_rx.on /\ Search(deny_rx, u)

\* The checks between the dequeue and the fetch.
Rejected(u) ==
    \/ same_domain /\ Netloc(u) \notin allowed_hosts
    \/ deny_rx.on /\ Search(deny_rx, u)
    \/ allow_rx.on /\ ~Search(allow_rx, u)

\* A slip: the deny test left out before enqueueing.
EnqueueableNoDeny(u) ==
    /\ u \notin seen_urls
    /\ ~(same_domain /\ Netloc(u) \notin allowed_hosts)

\* The checks before a discovered link is enqueued.
Enqueueable(u) ==
    /\ u \notin seen_urls
    /\ ~(same_domain /\ Netloc(u) \notin allowed_hosts)
    /\ ~(deny_rx.on /\ Search(deny_rx, u))

\* A slip: the front of the queue for every link extract_links scored high.
ToFrontByScore(l) == l.score > 1

ToFront(l) == Search(KEYWORD_RX, l.url)

\* The loop over the links: [q, d, put] after it, from queue qq with history dd.
RECURSIVE EnqueueLinks(_, _, _, _)
EnqueueLinks(qq, dd, put, links) ==
    IF links = <<>> THEN [q |-> qq, d |-> dd, put |-> put]
    ELSE LET l == Head(links)
         IN  IF ~Enqueueable(l.url)
             THEN EnqueueLinks(qq, dd, put, Tail(links))
             ELSE IF ToFront(l)
                  THEN EnqueueLinks(<<l.url>> \o qq, <<TRUE>> \o dd,
                                    Append(put, [url |-> l.url, side |-> "front"]),
                                    Tail(links))
                  ELSE EnqueueLinks(Append(qq, l.url), Append(dd, TRUE),
                                    Append(put, [url |-> l.url, side |-> "back"]),
                                    Tail(links))

\* A slip: a fetch error ends the crawl.
AfterFetchErrorStop == "done"

\* A slip: the failed fetch is tried again at once.
AfterFetchErrorAgain == "fetch"

\* "continue" in the except branch.
AfterFetchError == "loop"

CrawlConfig == UNCHANGED <<seeds, max_pages, allow_rx, deny_rx, allowed_hosts>>

CrawlFrame == CrawlConfig /\ UNCHANGED <<fetchVars, extractVars, restVars>>

\* q.popleft(), common to every iteration.
PopLeft ==
    /\ cpc = "loop"
    /\ LoopTest
    /\ url' = Head(q)
    /\ q' = Tail(q)
    /\ q_disc' = Tail(q_disc)
    /\ dequeues' = dequeues + 1
    /\ enqueued' = <<>>
    /\ UNCHANGED <<pages_crawled, all_entities, pages_log, failed>>
    /\ CrawlFrame

\* The dequeued url was seen before: continue.
SkipSeen ==
    /\ PopLeft
    /\ AlreadySeen(Head(q))
    /\ UNCHANGED <<seen_urls, cpc, fetched>>

\* The dequeued url is new but off-domain, denied or not allowed: continue.
SkipFiltered ==
    /\ PopLeft
    /\ ~AlreadySeen(Head(q))
    /\ Rejected(Head(q))
    /\ seen_urls' = seen_urls \cup {Head(q)}
    /\ UNCHANGED <<cpc, fetched>>

\* The dequeued url is new and passes: core.fetch(url) is called.
StartFetch ==
    /\ PopLeft
    /\ ~AlreadySeen(Head(q))
    /\ ~Rejected(Head(q))
    /\ seen_urls' = seen_urls \cup {Head(q)}
    /\ cpc' = "fetch"
    /\ fetched' = Append(fetched, Head(q))

\* core.fetch raises: the except branch logs and continues.
FetchRaisesStep ==
    /\ cpc = "fetch"
    /\ failed' = failed \cup {url}
    /\ cpc' = AfterFetchError
    /\ UNCHANGED <<q, seen_urls, pages_crawled, all_entities, pages_log, url, q_disc,
                   dequeues, fetched, enqueued>>
    /\ CrawlConfig

FetchRaises == FetchRaisesStep /\ UNCHANGED <<fetchVars, extractVars, restVars>>

\* What core.fetch(u) may return, as far as the loop looks at it: the final
\* url (u itself, or the site's root after a redirect) and what the four
\* extractors do on the html.
FetchResults(u) ==
    { [final_url |-> u,
       outs |-> <<Returned(<<Item(1, 1)>>), Returned(<<Item(2, 2)>>), Returned(<<>>),
                  Returned(<<Item(4, 1)>>)>>],
      [final_url |-> Url(u.scheme, u.netloc, "/"),
       outs |-> <<DidRaise, Returned(<<Item(2, 1)>>), DidRaise, DidRaise>>] }

IsEntity(it) == it.type = "entity"

\* core.fetch returns (final_url, html): extract, log the page, collect the
\* entities.
FetchReturnsStep ==
    /\ cpc = "fetch"
    /\ \E r \in FetchResults(url) :
            LET items == RunExtractors(r.outs)
            IN  /\ pages_log' = Append(pages_log,
                                       [url |-> r.final_url, items |-> Len(items)])
                /\ all_entities' = all_entities \o SelectSeq(items, IsEntity)
    /\ cpc' = "links"
    /\ UNCHANGED <<q, seen_urls, pages_crawled, url, q_disc, dequeues, fetched, failed,
                   enqueued>>
    /\ CrawlConfig

FetchReturns == FetchReturnsStep /\ UNCHANGED <<fetchVars, extractVars, restVars>>

\* The links of the page are enqueued and the page is counted.
EnqueueDiscovered ==
    /\ cpc = "links"
    /\ \E anchors \in SeqsUpTo(Anchors, MaxLinks) :
            LET after == EnqueueLinks(q, q_disc, <<>>, ExtractLinks(anchors))
            IN  /\ q' = after.q
                /\ q_disc' = after.d
                /\ enqueued' = after.put
    /\ pages_crawled' = pages_crawled + 1
    /\ cpc' = "loop"
    /\ UNCHANGED <<seen_urls, all_entities, pages_log, url, dequeues, fetched, failed>>
    /\ CrawlFrame

\* The loop is left: de-duplicate and export.
Finish ==
    /\ cpc = "loop"
    /\ ~LoopTest
    /\ all_entities' = dedupe_entities(all_entities)
    /\ cpc' = "done"
    /\ UNCHANGED <<q, seen_urls, pages_crawled, pages_log, url, q_disc, dequeues,
                   fetched, failed, enqueued>>
    /\ CrawlFrame

\* The --seed lists tried: one seed, a seed given twice, two seeds of one
\* host, seeds of two hosts, a seed the default deny pattern matches.
SeedLists ==
    { <<Url("http", "a.test", "/")>>,
      <<Url("http", "a.test", "/hotel")>>,
      <<Url("http", "a.test", "/"), Url("http", "a.test", "/")>>,
      <<Url("http", "a.test", "/"), Url("http", "a.test", "/hotel")>>,
      <<Url("http", "b.test", "/hotel"), Url("http", "a.test", "/")>>,
      <<Url("http", "a.test", "/doc.pdf"), Url("http", "a.test", "/")>> }

DenyChoices == {NoRx, Rx({"/doc.pdf"})}

AllowChoices == {NoRx, Rx({"/", "/doc.pdf"})}

Init ==
    /\ CoreIdle /\ ExtractIdle /\ RestIdle
    /\ seeds \in SeedLists
    /\ max_pages \in 0..MaxPagesBound
    /\ allow_rx \in AllowChoices
    /\ deny_rx \in DenyChoices
    /\ allowed_hosts = {Netloc(seeds[i]) : i \in 1..Len(seeds)}
    /\ q = seeds
    /\ q_disc = [i \in 1..Len(seeds) |-> FALSE]
    /\ seen_urls = {}
    /\ pages_crawled = 0
    /\ all_entities = <<>>
    /\ pages_log = <<>>
    /\ cpc = "loop"
    /\ url = seeds[1]
    /\ dequeues = 0
    /\ fetched = <<>>
    /\ failed = {}
    /\ enqueued = <<>>

Next ==
    \/ SkipSeen
    \/ SkipFiltered
    \/ StartFetch
    \/ FetchRaises
    \/ FetchReturns
    \/ EnqueueDiscovered
    \/ Finish

Spec == Init /\ [][Next]_vars

(***************************************************************************)
(* Claims about the crawl loop.                                            *)
(***************************************************************************)
\* C5: no url is fetched twice, every fetched url is in seen_urls, and
\* seen_urls never has more elements than urls were dequeued.
C5_NoRefetch ==
    /\ \A i, j \in 1..Len(fetched) : fetched[i] = fetched[j] => i = j
    /\ \A i \in 1..Len(fetched) : fetched[i] \in seen_urls
    /\ Cardinality(seen_urls) <= dequeues

\* A url was dequeued a second time and skipped, after its one fetch.
C5_Witness ==
    /\ dequeues > Cardinality(seen_urls)
    /\ cpc = "loop"
    /\ url \in seen_urls
    /\ \E i \in 1..Len(fetched) : fetched[i] = url
    /\ Len(fetched) >= 2

InAllowedHosts(u) == same_domain => u.netloc \in allowed_hosts

\* C6 (as the spec states it): a link is enqueued only if it is unseen, on an
\* allowed host, not denied, and allowed when an allow pattern is set.
C6_EnqueueFiltersWithAllow ==
    \A i \in 1..Len(enqueued) :
        /\ enqueued[i].url \notin seen_urls
        /\ InAllowedHosts(enqueued[i].url)
        /\ ~(deny_rx.on /\ enqueued[i].url.path \in deny_rx.paths)
        /\ allow_rx.on => enqueued[i].url.path \in allow_rx.paths

\* C6 (amended): a link is enqueued only if it is unseen, on an allowed host
\* and not denied; the allow pattern is not consulted before enqueueing.
C6_EnqueueFilters ==
    \A i \in 1..Len(enqueued) :
        /\ enqueued[i].url \notin seen_urls
        /\ InAllowedHosts(enqueued[i].url)
        /\ ~(deny_rx.on /\ enqueued[i].url.path \in deny_rx.paths)

\* With both patterns set, a page's links were enqueued, one of them outside
\* the allow pattern.
C6_Witness ==
    /\ allow_rx.on /\ deny_rx.on
    /\ Len(enqueued) = 2
    /\ \E i \in 1..Len(enqueued) : enqueued[i].url.path \notin allow_rx.paths

SeedFetchable ==
    /\ ~(deny_rx.on /\ seeds[1].path \in deny_rx.paths)
    /\ allow_rx.on => seeds[1].path \in allow_rx.paths
    /\ seeds[1] \notin failed

\* C7: pages_crawled never exceeds max_pages; the loop is left only with the
\* queue empty or pages_crawled >= max_pages, it is left then, and an iteration
\* starts only otherwise; with one fetchable seed and max_pages = 1 the run
\* fetches the seed alone and ends with pages_crawled = 1.
C7_PageBound ==
    /\ [](pages_crawled <= max_pages)
    /\ [][(cpc = "loop" /\ cpc' = "done")
            => (q = <<>> \/ pages_crawled >= max_pages)]_vars
    /\ [][(cpc = "loop" /\ cpc' # "done")
            => (q # <<>> /\ pages_crawled < max_pages)]_vars
    /\ []((cpc = "loop" /\ (q = <<>> \/ pages_crawled >= max_pages)) => ENABLED Finish)
    /\ []((Len(seeds) = 1 /\ max_pages = 1) => Len(fetched) <= 1)
    /\ []((Len(seeds) = 1 /\ max_pages = 1 /\ cpc = "done" /\ SeedFetchable)
            => (pages_crawled = 1 /\ fetched = seeds /\ seen_urls = {seeds[1]}))

\* One seed, max_pages = 1: the run is over with one page crawled and links of
\* that page left in the queue.
C7_Witness ==
    /\ Len(seeds) = 1 /\ max_pages = 1 /\ cpc = "done"
    /\ pages_crawled = 1 /\ Len(q) = 2 /\ fetched = seeds

MatchesKeyword(u) == Search(KEYWORD_RX, u)

\* C8: enqueueing the links of a page puts the urls KEYWORD_RX matches in
\* front of the queue and the others behind it, the urls already queued keep
\* their places between them, and no other step reorders the queue; so among
\* the discovered links in the queue every matching one is ahead of every
\* non-matching one.
C8_KeywordFirst ==
    /\ [](\A i, j \in 1..Len(q) :
            (i < j /\ q_disc[i] /\ q_disc[j] /\ MatchesKeyword(q[j]))
                => MatchesKeyword(q[i]))
    /\ [][cpc = "links" =>
            \E k \in 0..(Len(q') - Len(q)) :
                /\ SubSeq(q', k + 1, k + Len(q)) = q
                /\ \A i \in 1..k : MatchesKeyword(q'[i])
                /\ \A i \in (k + Len(q) + 1)..Len(q') : ~MatchesKeyword(q'[i])]_vars
    /\ [][cpc # "links" => (q' = q \/ (q # <<>> /\ q' = Tail(q)))]_vars

\* The queue holds a discovered matching link ahead of a discovered
\* non-matching one, just enqueued from one page around an older entry.
C8_Witness ==
    /\ Len(q) = 3 /\ Len(enqueued) = 2
    /\ q_disc[1] /\ MatchesKeyword(q[1])
    /\ q_disc[3] /\ ~MatchesKeyword(q[3])
    /\ ~q_disc[2]

\* C9: when core.fetch raises the loop goes on: the url stays in seen_urls and
\* is fetched that one time only, the step takes no item, no page-log entry, no
\* link and no page count, and the next queued url can be dequeued.
C9_FetchErrorContained ==
    /\ [](failed \subseteq seen_urls)
    /\ [](\A u \in failed : Cardinality({i \in 1..Len(fetched) : fetched[i] = u}) = 1)
    /\ [][failed' # failed =>
            /\ cpc' = "loop"
            /\ q' = q /\ seen_urls' = seen_urls
            /\ all_entities' = all_entities /\ pages_log' = pages_log
            /\ pages_crawled' = pages_crawled]_vars
    /\ []((cpc = "loop" /\ q # <<>> /\ pages_crawled < max_pages)
            => ENABLED (SkipSeen \/ SkipFiltered \/ StartFetch))

\* The first fetch failed and the crawl went on to fetch another url, extract
\* its items and enqueue its links, the failed url not among them.
C9_Witness ==
    /\ Len(fetched) = 2 /\ fetched[1] \in failed /\ fetched[2] \notin failed
    /\ pages_crawled = 1 /\ Len(all_entities) > 0 /\ Len(pages_log) = 1
    /\ cpc = "loop" /\ Len(enqueued) > 0
    /\ \A i \in 1..Len(q) : q[i] # fetched[1]

(***************************************************************************)
(* Orchestrator.run_once: fetch, then the four extractors and the optional *)
(* network extractor, each in its own try block.                           *)
(***************************************************************************)
\* What an extractor called by run_once does: it raises, or it returns
\* nothing, or it returns a list.
OrchOutcomes(k) == {DidRaise, Returned(<<>>), Returned(<<Item(k, 1)>>)}

NetworkOutcomes ==
    {DidRaise, Returned(<<>>),
     Returned(<<[type |-> "network", method |-> "network", id |-> 1]>>)}

\* A slip: the record of a failed fetch without the error.
FetchFailedRecordSilent(u, chain) ==
    [url |-> u, data_items |-> <<>>,
     meta |-> [method_chain |-> chain, count |-> 0, source_url |-> u]]

\* The dict returned when core.fetch raised.
FetchFailedRecord(u, chain) ==
    [url |-> u, data_items |-> <<>>,
     meta |-> [method_chain |-> chain, count |-> 0, source_url |-> u,
               error |-> "fetch_failed"]]

\* The dict returned at the end.
PageRecord(u, its, chain) ==
    [url |-> u, data_items |-> its,
     meta |-> [method_chain |-> chain, count |-> Len(its), source_url |-> u]]

OrchFrame == UNCHANGED <<fetchVars, crawlVars, extractVars, dedupeVars, workerVars, classifyVars,
                        cliVars, sitemapVars, newVars>>

\* try: final_url, html = self.core.fetch(url)  -- it raises.
OrchFetchRaises ==
    /\ opc = "fetch"
    /\ record' = FetchFailedRecord(o_url, method_chain)
    /\ o_fetch_raised' = TRUE
    /\ opc' = "returned"
    /\ UNCHANGED <<o_url, enable_network, HAS_NETWORK, o_items, method_chain, o_outs>>
    /\ OrchFrame

\* core.fetch returns (final_url, html).
OrchFetchReturns ==
    /\ opc = "fetch"
    /\ \E final_url \in FetchUrls : o_url' = final_url
    /\ opc' = ExtractorNames[1]
    /\ UNCHANGED <<enable_network, HAS_NETWORK, o_items, method_chain, record,
                   o_fetch_raised, o_outs>>
    /\ OrchFrame

\* A slip: the name appended before the extractor is called.
TryBlockNameFirst(o, name, next) ==
    /\ o_items' = IF ~o.raised /\ o.items # <<>> THEN o_items \o o.items ELSE o_items
    /\ method_chain' = Append(method_chain, name)
    /\ o_outs' = Append(o_outs, [name |-> name, raised |-> o.raised, items |-> o.items])
    /\ opc' = next

\* One try block: extend items when the result is not empty and append the
\* extractor's name; the except branch only logs.
TryBlock(o, name, next) ==
    /\ o_items' = IF ~o.raised /\ o.items # <<>> THEN o_items \o o.items ELSE o_items
    /\ method_chain' = IF o.raised THEN method_chain ELSE Append(method_chain, name)
    /\ o_outs' = Append(o_outs, [name |-> name, raised |-> o.raised, items |-> o.items])
    /\ opc' = next

OrchExtractor(k) ==
    /\ opc = ExtractorNames[k]
    /\ \E o \in OrchOutcomes(k) :
        TryBlock(o, ExtractorNames[k], IF k < 4 THEN ExtractorNames[k + 1] ELSE "network")
    /\ UNCHANGED <<o_url, enable_network, HAS_NETWORK, record, o_fetch_raised>>
    /\ OrchFrame

OrchTourismJsonld == OrchExtractor(1)

OrchTourismListings == OrchExtractor(2)

OrchIne == OrchExtractor(3)

OrchHtmlTables == OrchExtractor(4)

\* if enable_network and HAS_NETWORK: the network extractor in its try block.
OrchNetwork ==
    /\ opc = "network"
    /\ enable_network /\ HAS_NETWORK
    /\ \E o \in NetworkOutcomes : TryBlock(o, "network", "return")
    /\ UNCHANGED <<o_url, enable_network, HAS_NETWORK, record, o_fetch_raised>>
    /\ OrchFrame

\* Otherwise the network extractor is not called.
OrchNoNetwork ==
    /\ opc = "network"
    /\ ~(enable_network /\ HAS_NETWORK)
    /\ opc' = "return"
    /\ UNCHANGED <<o_url, enable_network, HAS_NETWORK, o_items, method_chain, record,
                   o_fetch_raised, o_outs>>
    /\ OrchFrame

OrchReturn ==
    /\ opc = "return"
    /\ record' = PageRecord(o_url, o_items, method_chain)
    /\ opc' = "returned"
    /\ UNCHANGED <<o_url, enable_network, HAS_NETWORK, o_items, method_chain,
                   o_fetch_raised, o_outs>>
    /\ OrchFrame

(***************************************************************************)
(* SpecOrch: one call of run_once.                                         *)
(***************************************************************************)
InitOrch ==
    /\ CoreIdle /\ CrawlIdle /\ ExtractIdle /\ NewIdle /\ DedupeIdle /\ WorkersIdle /\ ClassifyIdle
    /\ CliIdle /\ SitemapIdle
    /\ o_url \in FetchUrls
    /\ enable_network \in BOOLEAN
    /\ HAS_NETWORK \in BOOLEAN
    /\ opc = "fetch"
    /\ o_items = <<>>
    /\ method_chain = <<"fetch">>
    /\ record = NoRecord
    /\ o_fetch_raised = FALSE
    /\ o_outs = <<>>

NextOrch ==
    \/ OrchFetchRaises
    \/ OrchFetchReturns
    \/ OrchTourismJsonld
    \/ OrchTourismListings
    \/ OrchIne
    \/ OrchHtmlTables
    \/ OrchNetwork
    \/ OrchNoNetwork
    \/ OrchReturn

SpecOrch == InitOrch /\ [][NextOrch]_vars

NotRaised(o) == ~o.raised

HasError(r) == "error" \in DOMAIN r.meta

\* C11: the record run_once returns carries an error field iff core.fetch
\* raised; that record has no data items, count 0 and method chain <<"fetch">>;
\* whichever extractors raise, run_once goes on to return a record without an
\* error field.
C11_ErrorIffFetchFailed ==
    /\ opc = "returned" =>
        /\ HasError(record) <=> o_fetch_raised
        /\ HasError(record) =>
            /\ record.data_items = <<>>
            /\ record.meta.count = 0
            /\ record.meta.method_chain = <<"fetch">>
        /\ ~o_fetch_raised =>
            /\ record.meta.count = Len(record.data_items)
            /\ record.data_items =
                 Flatten([i \in 1..Len(o_outs) |->
                            IF o_outs[i].raised THEN <<>> ELSE o_outs[i].items])
            /\ record.meta.method_chain =
                 <<"fetch">> \o [i \in 1..Len(SelectSeq(o_outs, NotRaised)) |->
                                    SelectSeq(o_outs, NotRaised)[i].name]
    /\ opc # "returned" => record = NoRecord
    /\ opc \in {"fetch", "network", "return", "returned"}
                \cup {ExtractorNames[k] : k \in 1..4}

\* Every extractor raised, the network one included, and run_once returned.
C11_Witness ==
    /\ opc = "returned" /\ ~o_fetch_raised
    /\ Len(o_outs) = 5 /\ \A i \in 1..5 : o_outs[i].raised
    /\ ~HasError(record) /\ record.meta.method_chain = <<"fetch">>

(***************************************************************************)
(* SpecDedupe: dedupe_entities applied to a list of entities, then to its  *)
(* own result.                                                             *)
(***************************************************************************)
MaxEntities == 3        \* longest list given to dedupe_entities

\* An entity as the extractors build it.  entity_type "None" is the key being
\* absent (the listing extractor's items carry no entity_type).
Entity(name, entity_type, segment, telephone, confidence) ==
    [type |-> "entity", name |-> name, entity_type |-> entity_type,
     segment |-> segment, telephone |-> telephone, email |-> <<>>,
     url |-> <<"u">>, confidence |-> confidence]

Entities ==
    { Entity(<<"H", "x">>, "None", "accommodation", <<"1">>, 87),
      Entity(<<" ", "h", "x">>, "None", "accommodation", <<"1", " ">>, 95),
      Entity(<<"H", "x">>, "None", "business", <<"1">>, 87),
      Entity(<<"H", "x">>, "accommodation", "accommodation", <<"1">>, 95),
      Entity(<<"x">>, "None", "accommodation", <<"1">>, 87) }

DedupeFrame == UNCHANGED <<fetchVars, crawlVars, extractVars, orchVars, workerVars, classifyVars,
                          cliVars, sitemapVars, newVars>>

Dedupe ==
    /\ dpc = 0
    /\ d_out' = dedupe_entities(d_entities)
    /\ dpc' = 1
    /\ UNCHANGED <<d_entities, d_again>>
    /\ DedupeFrame

DedupeAgain ==
    /\ dpc = 1
    /\ d_again' = dedupe_entities(d_out)
    /\ dpc' = 2
    /\ UNCHANGED <<d_entities, d_out>>
    /\ DedupeFrame

InitDedupe ==
    /\ CoreIdle /\ CrawlIdle /\ ExtractIdle /\ NewIdle /\ OrchIdle /\ WorkersIdle /\ ClassifyIdle
    /\ CliIdle /\ SitemapIdle
    /\ dpc = 0
    /\ d_entities \in SeqsUpTo(Entities, MaxEntities)
    /\ d_out = <<>>
    /\ d_again = <<>>

NextDedupe == Dedupe \/ DedupeAgain

SpecDedupe == InitDedupe /\ [][NextDedupe]_vars

\* The positions of the input whose key no earlier position carries.
FirstOfKey == {i \in 1..Len(d_entities) :
                 \A j \in 1..(i - 1) : EntityKey(d_entities[j]) # EntityKey(d_entities[i])}

NthFirstOfKey(k) == CHOOSE i \in FirstOfKey : Cardinality({j \in FirstOfKey : j <= i}) = k

\* C12: the result is the input restricted, in input order, to the first
\* entity of every key, whatever the confidence of the later ones; no two
\* entities of the result share a key and every key of the input is in it.
C12_FirstSeenWins ==
    dpc >= 1 =>
        /\ Len(d_out) = Cardinality(FirstOfKey)
        /\ \A k \in 1..Len(d_out) : d_out[k] = d_entities[NthFirstOfKey(k)]
        /\ \A i, j \in 1..Len(d_out) : i # j => EntityKey(d_out[i]) # EntityKey(d_out[j])
        /\ {EntityKey(d_entities[i]) : i \in 1..Len(d_entities)}
             = {EntityKey(d_out[i]) : i \in 1..Len(d_out)}

\* Two entities of one key, the later of higher confidence, around an entity
\* of another key: the first and the other are kept, in that order.
C12_Witness ==
    /\ dpc >= 1 /\ Len(d_entities) = 3 /\ Len(d_out) = 2
    /\ EntityKey(d_entities[1]) = EntityKey(d_entities[3])
    /\ d_entities[3].confidence > d_entities[1].confidence
    /\ d_out = <<d_entities[1], d_entities[2]>>

\* C13: dedupe_entities applied to its own result gives that result again.
C13_Idempotent == dpc = 2 => d_again = d_out

\* The second application ran on a result shorter than the input.
C13_Witness ==
    /\ dpc = 2 /\ Len(d_entities) = 3 /\ Len(d_out) = 2 /\ d_again = d_out

\* segment, or else the legacy entity type.
SegmentOrLegacyType(e) == IF e.segment # "None" THEN e.segment ELSE e.entity_type

\* The identity key as the specification gives it.
IdentityKey(e) ==
    <<Lower(Strip(e.name)), SegmentOrLegacyType(e), Strip(e.telephone), Strip(e.email),
      Strip(e.url)>>

\* C14 (as the spec states it): two entities are duplicates iff they agree on
\* (name lowercased and trimmed, segment or else legacy type, telephone, email,
\* url trimmed): the result keeps one entity of every such tuple of the input
\* and no two of the same tuple, so entities differing only in segment are both
\* kept.
C14_KeyUsesSegment ==
    dpc >= 1 =>
        /\ \A i, j \in 1..Len(d_out) : i # j => IdentityKey(d_out[i]) # IdentityKey(d_out[j])
        /\ {IdentityKey(d_entities[i]) : i \in 1..Len(d_entities)}
             = {IdentityKey(d_out[i]) : i \in 1..Len(d_out)}

(***************************************************************************)
(* SpecWorkers: several threads call fetch on one shared Core for urls of  *)
(* one host.  _throttle takes no lock: its statements interleave, a thread *)
(* being descheduled between the read of the timestamp, the sleep and the  *)
(* write.  robots.txt gives no crawl-delay and max_delay_s = min_delay_s.   *)
(***************************************************************************)
NumWorkers == 2         \* threads sharing the Core
MaxWorkerCalls == 2     \* fetch calls per thread
MaxClock == 4           \* the clock runs from Epoch to Epoch + MaxClock

Workers == 1..NumWorkers

WorkerHost == "a.test"

WorkersFrame == UNCHANGED <<fetchVars, crawlVars, extractVars, orchVars, dedupeVars, classifyVars,
                           cliVars, sitemapVars, newVars>>

\* now = time.time(); last = self._last_fetch_per_host.get(host, 0.0);
\* to_wait = max(0.0, last + min_gap - now)
ThrottleRead(w) ==
    /\ wpc[w] \in {"idle", "request"}
    /\ w_calls[w] < MaxWorkerCalls
    /\ LET last == IF WorkerHost \in DOMAIN w_last_fetch
                   THEN w_last_fetch[WorkerHost] ELSE 0
       IN  /\ w_last' = [w_last EXCEPT ![w] = last]
           /\ w_wake' = [w_wake EXCEPT ![w] = w_now + Max(0, last + w_min_delay_s - w_now)]
    /\ wpc' = [wpc EXCEPT ![w] = "sleep"]
    /\ w_calls' = [w_calls EXCEPT ![w] = @ + 1]
    /\ UNCHANGED <<w_min_delay_s, w_now, w_last_fetch, w_reqs>>
    /\ WorkersFrame

\* time.sleep(to_wait) is over; self._last_fetch_per_host[host] = time.time();
\* fetch goes on to session.get.
ThrottleWrite(w) ==
    /\ wpc[w] = "sleep"
    /\ w_now >= w_wake[w]
    /\ w_last_fetch' = [h \in {WorkerHost} |-> w_now]
    /\ w_reqs' = Append(w_reqs, [worker |-> w, at |-> w_now, last |-> w_last[w]])
    /\ wpc' = [wpc EXCEPT ![w] = "request"]
    /\ UNCHANGED <<w_min_delay_s, w_now, w_last, w_wake, w_calls>>
    /\ WorkersFrame

\* A second passes.
Tick ==
    /\ w_now < Epoch + MaxClock
    /\ w_now' = w_now + 1
    /\ UNCHANGED <<w_min_delay_s, w_last_fetch, wpc, w_last, w_wake, w_calls, w_reqs>>
    /\ WorkersFrame

InitWorkers ==
    /\ CoreIdle /\ CrawlIdle /\ ExtractIdle /\ NewIdle /\ OrchIdle /\ DedupeIdle /\ ClassifyIdle
    /\ CliIdle /\ SitemapIdle
    /\ w_min_delay_s \in DelayChoices
    /\ w_now = Epoch
    /\ w_last_fetch = <<>>
    /\ wpc = [w \in Workers |-> "idle"]
    /\ w_last = [w \in Workers |-> 0]
    /\ w_wake = [w \in Workers |-> 0]
    /\ w_calls = [w \in Workers |-> 0]
    /\ w_reqs = <<>>

NextWorkers ==
    \/ \E w \in Workers : ThrottleRead(w)
    \/ \E w \in Workers : ThrottleWrite(w)
    \/ Tick

SpecWorkers == InitWorkers /\ [][NextWorkers]_vars

\* C16 (as the spec states it): the read-modify-write of the host's timestamp
\* is mutually exclusive: at most one worker is between its read and its
\* write, no two requests went ahead on the same timestamp read, and any two
\* requests to the host are at least min_delay_s apart.
C16_ThrottleMutualExclusion ==
    /\ \A v, w \in Workers : (v # w /\ wpc[v] = "sleep") => wpc[w] # "sleep"
    /\ \A i, j \in 1..Len(w_reqs) :
          i < j => /\ w_reqs[i].last # w_reqs[j].last
                   /\ w_reqs[j].at - w_reqs[i].at >= w_min_delay_s

(***************************************************************************)
(* tourism.classify_entity.  A text is given by the patterns that match    *)
(* it: the keyword patterns of KW by their place in KW's order, and for    *)
(* the url the one of the three url patterns that matches.                 *)
(***************************************************************************)
MaxTypes == 2           \* most declared types of one entity

\* SCHEMA_TO_SEG_SUB, for the declared types of the model.
SCHEMA_TO_SEG_SUB ==
    [Hotel |-> [segment |-> "accommodation", subtype |-> "hotel"],
     LodgingBusiness |-> [segment |-> "accommodation", subtype |-> "None"],
     Restaurant |-> [segment |-> "business", subtype |-> "restaurante"]]

\* Declared types: "" is a falsy entry, "Person" is not in the mapping.
DeclaredTypes == {"", "Hotel", "LodgingBusiness", "Restaurant", "Person"}

\* KW in iteration order, for the keyword patterns of the model.
KW ==
    <<[segment |-> "accommodation", subtype |-> "hotel"],
      [segment |-> "business", subtype |-> "restaurante"]>>

\* The url patterns, by the segment each returns, and their scores.
UrlHintScore == [accommodation |-> 55, experience |-> 50, business |-> 50]

Result(seg, sub, src, score) ==
    [segment |-> seg, subtype |-> sub, source |-> src, score |-> score]

\* The entries of types that are truthy and in the mapping, in order.
IsMapped(t) == t # "" /\ t \in DOMAIN SCHEMA_TO_SEG_SUB

classify_by_schema(types) ==
    LET mapped == SelectSeq(types, IsMapped)
    IN  IF mapped = <<>>
        THEN [segment |-> "None", subtype |-> "None", source |-> "none"]
        ELSE [segment |-> SCHEMA_TO_SEG_SUB[mapped[1]].segment,
              subtype |-> SCHEMA_TO_SEG_SUB[mapped[1]].subtype, source |-> "schema"]

\* A slip: a keyword match scored above a schema match.
KeywordScoreHigh(in_url_or_name) == IF in_url_or_name THEN 75 ELSE 60

KeywordScore(in_url_or_name) == IF in_url_or_name THEN 65 ELSE 60

\* The part of classify_entity after the schema test.
ClassifyByText(u, name, description, full_text) ==
    LET hay == name \cup description \cup u.kw \cup full_text
    IN  IF hay # {}
        THEN LET k == CHOOSE i \in hay : \A j \in hay : i <= j
             IN  Result(KW[k].segment, KW[k].subtype, "keywords",
                        KeywordScore(k \in u.kw \/ k \in name))
        ELSE IF u.hint # "None"
             THEN Result(u.hint, "None", "url", UrlHintScore[u.hint])
             ELSE Result("None", "None", "fallback", 40)

\* A slip: the keywords are tried before the declared type.
classify_entity_keywords_first(types, u, name, description, full_text) ==
    IF name \cup description \cup u.kw \cup full_text # {}
    THEN ClassifyByText(u, name, description, full_text)
    ELSE LET by_schema == classify_by_schema(types)
         IN  IF by_schema.segment # "None"
             THEN Result(by_schema.segment, by_schema.subtype, "schema",
                         IF by_schema.subtype # "None" THEN 80 ELSE 70)
             ELSE ClassifyByText(u, name, description, full_text)

classify_entity(types, u, name, description, full_text) ==
    LET by_schema == classify_by_schema(types)
    IN  IF by_schema.segment # "None"
        THEN Result(by_schema.segment, by_schema.subtype, "schema",
                    IF by_schema.subtype # "None" THEN 80 ELSE 70)
        ELSE ClassifyByText(u, name, description, full_text)

ClassifyFrame ==
    /\ UNCHANGED <<raw_type, c_url, c_name, c_description, c_full_text, expected_segment>>
    /\ UNCHANGED <<fetchVars, crawlVars, extractVars, orchVars, dedupeVars, workerVars,
                   cliVars, sitemapVars, newVars>>

\* classify_entity(raw_type, url, name, description, full_text)
Classify ==
    /\ kpc = 0
    /\ c_result' = classify_entity(raw_type, c_url, c_name, c_description, c_full_text)
    /\ kpc' = 1
    /\ ClassifyFrame

\* build_item: classify_entity with raw_type None and description "", then
\* expected_segment when no segment was found.
BuildItem ==
    /\ kpc = 0
    /\ LET r == classify_entity(<<"">>, c_url, c_name, {}, c_full_text)
       IN  c_result' = IF r.segment = "None" /\ expected_segment # "None"
                       THEN Result(expected_segment, "None", "fallback", 45)
                       ELSE r
    /\ kpc' = 2
    /\ ClassifyFrame

KwSets == SUBSET (1..Len(KW))

InitClassify ==
    /\ CoreIdle /\ CrawlIdle /\ ExtractIdle /\ NewIdle /\ OrchIdle /\ DedupeIdle /\ WorkersIdle
    /\ CliIdle /\ SitemapIdle
    /\ kpc = 0
    /\ raw_type \in SeqsUpTo(DeclaredTypes, MaxTypes)
    /\ c_url \in [kw : KwSets, hint : {"None", "accommodation", "experience", "business"}]
    /\ c_name \in KwSets
    /\ c_description \in {{}, {2}}
    /\ c_full_text \in {{}, {1}}
    /\ expected_segment \in {"None", "experience"}
    /\ c_result = [segment |-> "None", subtype |-> "None", source |-> "None", score |-> 0]

NextClassify == Classify \/ BuildItem

SpecClassify == InitClassify /\ [][NextClassify]_vars

HasMappedType == \E i \in 1..Len(raw_type) : IsMapped(raw_type[i])

FirstMappedType ==
    raw_type[CHOOSE i \in 1..Len(raw_type) :
                /\ IsMapped(raw_type[i])
                /\ \A j \in 1..(i - 1) : ~IsMapped(raw_type[j])]

\* C17: with a declared type that is in SCHEMA_TO_SEG_SUB, classify_entity
\* returns source "schema" and that type's segment and subtype, whatever
\* patterns the url, the name, the description and the page text match.
C17_SchemaFirst ==
    (kpc = 1 /\ HasMappedType) =>
        /\ c_result.source = "schema"
        /\ c_result.segment = SCHEMA_TO_SEG_SUB[FirstMappedType].segment
        /\ c_result.subtype = SCHEMA_TO_SEG_SUB[FirstMappedType].subtype

\* A declared Hotel whose name, url and text match the restaurant keywords and
\* the business url pattern is classified by its type.
C17_Witness ==
    /\ kpc = 1 /\ raw_type = <<"Person", "Hotel">>
    /\ c_name = {2} /\ c_url = [kw |-> {2}, hint |-> "business"] /\ c_description = {2}
    /\ c_result = Result("accommodation", "hotel", "schema", 80)

\* C18: the score follows the source: schema 70 or 80, keywords 60 or 65,
\* url 50 or 55, fallback 40 to 45; and classify_entity returns no segment
\* exactly when it returns "fallback" with 40.
C18_ScoreBySource ==
    kpc \in {1, 2} =>
        /\ c_result.source \in {"schema", "keywords", "url", "fallback"}
        /\ c_result.source = "schema" => c_result.score \in {70, 80}
        /\ c_result.source = "keywords" => c_result.score \in {60, 65}
        /\ c_result.source = "url" => c_result.score \in {50, 55}
        /\ c_result.source = "fallback" => c_result.score \in 40..45
        /\ kpc = 1 => (c_result.segment = "None"
                         <=> (c_result.source = "fallback" /\ c_result.score = 40))

\* classify_entity found nothing to go by.
C18_Witness ==
    /\ kpc = 1 /\ raw_type = <<"Person">>
    /\ c_result = Result("None", "None", "fallback", 40)

(***************************************************************************)
(* main_site_filtered.main: site mode (crawl_site, then the combined       *)
(* report) and the other modes (process_one per item, counted as the       *)
(* futures complete).                                                      *)
(***************************************************************************)
MaxInputs == 3          \* most pages crawled, or items processed, in one run

CliFrame ==
    /\ UNCHANGED <<args_site, m_inputs>>
    /\ UNCHANGED <<fetchVars, crawlVars, extractVars, orchVars, dedupeVars, workerVars,
                   classifyVars, sitemapVars, newVars>>

\* crawl_site: the fetch of a page raises: [WARN] and continue.
SiteFetchFails ==
    /\ mpc = "run" /\ args_site /\ Len(m_log) < m_inputs
    /\ m_log' = Append(m_log, "fetch_failed")
    /\ UNCHANGED <<mpc, ok_count, fail_count, exit_code>>
    /\ CliFrame

\* crawl_site: parsing or writing a page raises: [FAIL], the loop goes on.
SiteProcessFails ==
    /\ mpc = "run" /\ args_site /\ Len(m_log) < m_inputs
    /\ m_log' = Append(m_log, "process_failed")
    /\ UNCHANGED <<mpc, ok_count, fail_count, exit_code>>
    /\ CliFrame

\* crawl_site: a page is fetched, parsed and written.
SitePageOk ==
    /\ mpc = "run" /\ args_site /\ Len(m_log) < m_inputs
    /\ m_log' = Append(m_log, "ok")
    /\ UNCHANGED <<mpc, ok_count, fail_count, exit_code>>
    /\ CliFrame

\* crawl_site returns.
SiteCrawled ==
    /\ mpc = "run" /\ args_site /\ Len(m_log) = m_inputs
    /\ mpc' = "combined"
    /\ UNCHANGED <<m_log, ok_count, fail_count, exit_code>>
    /\ CliFrame

\* build_combined_report succeeds or raises ([FAIL] Combinado); return 0.
SiteReturn ==
    /\ mpc = "combined"
    /\ \E combined \in {"ok", "report_failed"} : m_log' = Append(m_log, combined)
    /\ exit_code' = 0
    /\ mpc' = "exit"
    /\ UNCHANGED <<ok_count, fail_count>>
    /\ CliFrame

\* name, ok, err, jp = fut.result() with ok true.
BatchOk ==
    /\ mpc = "run" /\ ~args_site /\ Len(m_log) < m_inputs
    /\ m_log' = Append(m_log, "ok")
    /\ ok_count' = ok_count + 1
    /\ UNCHANGED <<mpc, fail_count, exit_code>>
    /\ CliFrame

\* process_one returned ok false: the fetch, the file or the processing failed.
BatchFail ==
    /\ mpc = "run" /\ ~args_site /\ Len(m_log) < m_inputs
    /\ \E err \in {"fetch_failed", "process_failed"} : m_log' = Append(m_log, err)
    /\ fail_count' = fail_count + 1
    /\ UNCHANGED <<mpc, ok_count, exit_code>>
    /\ CliFrame

\* return 0 if fail_count == 0 else 2
BatchReturn ==
    /\ mpc = "run" /\ ~args_site /\ Len(m_log) = m_inputs
    /\ exit_code' = IF fail_count = 0 THEN 0 ELSE 2
    /\ mpc' = "exit"
    /\ UNCHANGED <<m_log, ok_count, fail_count>>
    /\ CliFrame

InitCli ==
    /\ CoreIdle /\ CrawlIdle /\ ExtractIdle /\ NewIdle /\ OrchIdle /\ DedupeIdle /\ WorkersIdle
    /\ ClassifyIdle /\ SitemapIdle
    /\ mpc = "run"
    /\ args_site \in BOOLEAN
    /\ m_inputs \in 0..MaxInputs
    /\ m_log = <<>>
    /\ ok_count = 0
    /\ fail_count = 0
    /\ exit_code = -1

NextCli ==
    \/ SiteFetchFails
    \/ SiteProcessFails
    \/ SitePageOk
    \/ SiteCrawled
    \/ SiteReturn
    \/ BatchOk
    \/ BatchFail
    \/ BatchReturn

SpecCli == InitCli /\ [][NextCli]_vars

\* C19 (as the spec states it): main's exit code is 0 iff every processed
\* input succeeded, and non-zero when a url or file failed to be fetched or
\* processed.
C19_ExitCodeReflectsFailures ==
    mpc = "exit" =>
        (exit_code = 0 <=>
            \A i \in 1..Len(m_log) : m_log[i] \notin {"fetch_failed", "process_failed"})

(***************************************************************************)
(* main_site_filtered.parse_sitemap.  The document at a sitemap url is a   *)
(* urlset with its <loc> texts, a sitemapindex with the documents at its   *)
(* nested sitemap urls, or one whose download or parse raises.             *)
(***************************************************************************)
MaxChildren == 2        \* most nested sitemaps of one sitemapindex
MaxLimit == 2           \* limit is drawn from 1..MaxLimit

Urlset(locs) == [kind |-> "urlset", locs |-> locs]

SitemapIndex(children) == [kind |-> "sitemapindex", children |-> children]

Unreadable == [kind |-> "error"]

Urlsets == {Urlset(<<>>), Urlset(<<"a">>), Urlset(<<"b", "c">>), Urlset(<<"a", "b", "c">>)}

FlatIndexes == {SitemapIndex(c) : c \in SeqsUpTo(Urlsets \cup {Unreadable}, MaxChildren)}

SitemapDocs ==
    Urlsets \cup {Unreadable} \cup FlatIndexes
        \cup {SitemapIndex(<<x>>) : x \in FlatIndexes}

\* The urlset loop: append each loc, break once len(urls) >= limit.
RECURSIVE ParseUrlset(_, _, _)
ParseUrlset(locs, limit, urls) ==
    IF locs = <<>> THEN urls
    ELSE LET more == Append(urls, Head(locs))
         IN  IF Len(more) >= limit THEN more ELSE ParseUrlset(Tail(locs), limit, more)

\* The "dedup" loop at the end of parse_sitemap.
RECURSIVE Uniq(_, _, _)
Uniq(urls, seen, out) ==
    IF urls = <<>> THEN out
    ELSE IF Head(urls) \in seen
         THEN Uniq(Tail(urls), seen, out)
         ELSE Uniq(Tail(urls), seen \cup {Head(urls)}, Append(out, Head(urls)))

RECURSIVE parse_sitemap(_, _)
RECURSIVE ParseIndex(_, _, _)
\* The sitemapindex loop: extend with parse_sitemap of each nested sitemap,
\* break once len(urls) >= limit.
ParseIndex(children, limit, urls) ==
    IF children = <<>> THEN urls
    ELSE LET more == urls \o parse_sitemap(Head(children), limit)
         IN  IF Len(more) >= limit THEN more ELSE ParseIndex(Tail(children), limit, more)

parse_sitemap(doc, limit) ==
    IF doc.kind = "error" THEN <<>>
    ELSE Uniq(IF doc.kind = "sitemapindex"
              THEN ParseIndex(doc.children, limit, <<>>)
              ELSE ParseUrlset(doc.locs, limit, <<>>),
              {}, <<>>)

ParseSitemap ==
    /\ spc = 0
    /\ s_out' = parse_sitemap(s_doc, s_limit)
    /\ spc' = 1
    /\ UNCHANGED <<s_doc, s_limit>>
    /\ UNCHANGED <<fetchVars, crawlVars, extractVars, orchVars, dedupeVars, workerVars,
                   classifyVars, cliVars, newVars>>

InitSitemap ==
    /\ CoreIdle /\ CrawlIdle /\ ExtractIdle /\ NewIdle /\ OrchIdle /\ DedupeIdle /\ WorkersIdle
    /\ ClassifyIdle /\ CliIdle
    /\ spc = 0
    /\ s_doc \in SitemapDocs
    /\ s_limit \in 1..MaxLimit
    /\ s_out = <<>>

NextSitemap == ParseSitemap

SpecSitemap == InitSitemap /\ [][NextSitemap]_vars

\* C20 (as the spec states it): parse_sitemap(url, limit) returns at most
\* limit urls, also for a sitemap index whose nested sitemaps are expanded.
C20_SitemapLimit == spc = 1 => Len(s_out) <= s_limit

(***************************************************************************)
(* normalize_url, in crawl_cli.py and in main_site_filtered.py.  A url is  *)
(* the record of the six parts urlparse gives; href is absolute (it has a  *)
(* scheme and a netloc) or a reference by absolute path (it has neither).  *)
(***************************************************************************)
UrlParts(scheme, netloc, path, params, query, fragment) ==
    [scheme |-> scheme, netloc |-> netloc, path |-> path, params |-> params,
     query |-> query, fragment |-> fragment]

AbsoluteHrefs ==
    {UrlParts(sc, h, p, pa, qu, fr) :
        sc \in {"http", "https"}, h \in {"a.test", "b.test"}, p \in {"", "/", "/x"},
        pa \in {"", "v"}, qu \in {"", "q=1"}, fr \in {"", "f"}}

RelativeHrefs ==
    {UrlParts("", "", p, "", qu, fr) : p \in {"/", "/x"}, qu \in {"", "q=1"}, fr \in {"", "f"}}

OtherHrefs == {UrlParts("mailto", "", "x@a.test", "", "", ""),
               UrlParts("ftp", "a.test", "/x", "", "", "")}

Bases == {UrlParts("http", "b.test", "/dir", "", "", ""),
          UrlParts("https", "a.test", "/", "", "z=1", "")}

\* urljoin(base, href): an href with a scheme stands as it is, a reference
\* by absolute path takes the scheme and the netloc of base.
urljoin(b, h) ==
    IF h.scheme # "" THEN h
    ELSE [h EXCEPT !.scheme = b.scheme, !.netloc = b.netloc]

\* urldefrag(url)[0]
urldefrag(u) == [u EXCEPT !.fragment = ""]

\* A slip: the fragment is left in.
normalize_url_keep_fragment(b, h) ==
    IF h.scheme \in {"mailto", "tel", "javascript"} THEN NoUrl
    ELSE IF urljoin(b, h).scheme \notin {"http", "https"} THEN NoUrl
    ELSE urljoin(b, h)

\* crawl_cli.normalize_url(base, href)
normalize_url(b, h) ==
    IF h.scheme \in {"mailto", "tel", "javascript"} THEN NoUrl
    ELSE LET full == urldefrag(urljoin(b, h))
         IN  IF full.scheme \notin {"http", "https"} THEN NoUrl ELSE full

\* main_site_filtered.normalize_url(base, href, allow_query)
site_normalize_url(b, h, aq) ==
    IF h.scheme \in {"mailto", "tel", "javascript"} THEN NoUrl
    ELSE LET p == urljoin(b, h)
         IN  IF p.scheme \notin {"http", "https"} THEN NoUrl
             ELSE UrlParts(p.scheme, p.netloc, IF p.path = "" THEN "/" ELSE p.path, "",
                           IF aq THEN p.query ELSE "", "")

NormFrame ==
    /\ UNCHANGED <<n_base, n_href, allow_query>>
    /\ UNCHANGED <<fetchVars, crawlVars, extractVars, orchVars, dedupeVars, workerVars,
                   classifyVars, cliVars, sitemapVars, tourVars, htmlVars, siteVars>>

NormalizeCrawlCli ==
    /\ npc = 0
    /\ n_out' = normalize_url(n_base, n_href)
    /\ npc' = 1
    /\ NormFrame

NormalizeSite ==
    /\ npc = 0
    /\ n_out' = site_normalize_url(n_base, n_href, allow_query)
    /\ npc' = 2
    /\ NormFrame

InitNorm ==
    /\ CoreIdle /\ CrawlIdle /\ ExtractIdle /\ OrchIdle /\ DedupeIdle /\ WorkersIdle
    /\ ClassifyIdle /\ CliIdle /\ SitemapIdle /\ TourIdle /\ HtmlIdle /\ SiteIdle
    /\ npc = 0
    /\ n_base \in Bases
    /\ n_href \in AbsoluteHrefs \cup RelativeHrefs \cup OtherHrefs
    /\ allow_query \in BOOLEAN
    /\ n_out = NoUrl

NextNorm == NormalizeCrawlCli \/ NormalizeSite

SpecNorm == InitNorm /\ [][NextNorm]_vars

\* C21 (as the spec states it): for an absolute http(s) href, whatever the
\* base, normalize_url returns href without its fragment and otherwise as it
\* is, in crawl_cli and in main_site_filtered.
C21_OnlyFragmentRemoved ==
    (npc \in {1, 2} /\ n_href \in AbsoluteHrefs) => n_out = [n_href EXCEPT !.fragment = ""]

\* C21, amended: crawl_cli's normalize_url returns an absolute http(s) href
\* with only its fragment removed; main_site_filtered's keeps scheme and
\* netloc, removes the fragment and the params, gives "/" for an empty path
\* and keeps the query only with allow_query.
C21_NormalizeByFunction ==
    n_href \in AbsoluteHrefs =>
        /\ npc = 1 => n_out = [n_href EXCEPT !.fragment = ""]
        /\ npc = 2 =>
            /\ n_out.scheme = n_href.scheme /\ n_out.netloc = n_href.netloc
            /\ n_out.fragment = "" /\ n_out.params = ""
            /\ n_out.path = (IF n_href.path = "" THEN "/" ELSE n_href.path)
            /\ n_out.query = (IF allow_query THEN n_href.query ELSE "")

\* crawl_cli's normalize_url took the fragment off an href of another host
\* than base, its query kept.
C21_Witness ==
    /\ npc = 1 /\ n_href \in AbsoluteHrefs
    /\ n_href.fragment = "f" /\ n_href.query = "q=1" /\ n_href.netloc # n_base.netloc
    /\ n_out.fragment = "" /\ n_out.query = "q=1" /\ n_out.netloc = n_href.netloc

\* ---------------------------------------------------------------------------
\* tourism.extract_tourism_entities: JSON-LD nodes to entity records
\* ---------------------------------------------------------------------------

MaxNodes == 2

\* INTERESTING_TYPES, the schema.org types the extractor keeps.
INTERESTING_TYPES == {"Hotel", "LodgingBusiness", "TouristAttraction", "Restaurant",
                      "LocalBusiness", "Organization", "Event", "TravelAgency",
                      "TouristDestination"}

\* A JSON-LD node by its "@type", "name" and "telephone".
Node(typ, name, telephone) == [type |-> typ, name |-> name, telephone |-> telephone]

Nodes ==
    { Node(t, n, "123") : t \in {"Hotel", "Restaurant", "WebPage"}, n \in {"Hotel X", "Bar Y"} }

\* Python's None as a list element.
NoneValue == [none |-> TRUE]

\* The module-level _normalize_entity computes typ, defines a nested function
\* of the same name that holds the record-building code, never calls it and
\* has no return statement: it returns None for every node.
_normalize_entity(node) == NoneValue

TourFrame ==
    /\ UNCHANGED t_nodes
    /\ UNCHANGED <<fetchVars, crawlVars, extractVars, orchVars, dedupeVars, workerVars,
                   classifyVars, cliVars, sitemapVars, normVars, htmlVars, siteVars>>

\* One JSON-LD node whose @type is in INTERESTING_TYPES.
AppendNormalized ==
    /\ tpc = "scan" /\ t_i < Len(t_nodes)
    /\ t_nodes[t_i + 1].type \in INTERESTING_TYPES
    /\ t_items' = Append(t_items, _normalize_entity(t_nodes[t_i + 1]))
    /\ t_i' = t_i + 1
    /\ UNCHANGED <<tpc, t_out>>
    /\ TourFrame

\* One JSON-LD node of another type.
SkipNode ==
    /\ tpc = "scan" /\ t_i < Len(t_nodes)
    /\ t_nodes[t_i + 1].type \notin INTERESTING_TYPES
    /\ t_i' = t_i + 1
    /\ UNCHANGED <<tpc, t_items, t_out>>
    /\ TourFrame

\* The JSON-LD loop is over; extruct is not installed, its import raises and
\* the except clause passes.
ScanDone ==
    /\ tpc = "scan" /\ t_i = Len(t_nodes)
    /\ tpc' = "dedupe"
    /\ UNCHANGED <<t_i, t_items, t_out>>
    /\ TourFrame

\* The de-duplication loop calls it.get("name") on each item in turn; on None
\* that raises AttributeError, and the loop is in no try block.
DedupeRaises ==
    /\ tpc = "dedupe"
    /\ \E i \in 1..Len(t_items) : t_items[i] = NoneValue
    /\ tpc' = "raised"
    /\ UNCHANGED <<t_i, t_items, t_out>>
    /\ TourFrame

\* No item is None: the loop ends and deduped is returned. Every item is None,
\* so this is the return of the empty list.
DedupeReturns ==
    /\ tpc = "dedupe"
    /\ \A i \in 1..Len(t_items) : t_items[i] # NoneValue
    /\ t_out' = t_items
    /\ tpc' = "returned"
    /\ UNCHANGED <<t_i, t_items>>
    /\ TourFrame

NodeLists == UNION { [1..n -> Nodes] : n \in 0..MaxNodes }

InitTourism ==
    /\ CoreIdle /\ CrawlIdle /\ ExtractIdle /\ OrchIdle /\ DedupeIdle /\ WorkersIdle
    /\ ClassifyIdle /\ CliIdle /\ SitemapIdle /\ NormIdle /\ HtmlIdle /\ SiteIdle
    /\ tpc = "scan"
    /\ t_nodes \in NodeLists
    /\ t_i = 0 /\ t_items = <<>> /\ t_out = <<>>

NextTourism == AppendNormalized \/ SkipNode \/ ScanDone \/ DedupeRaises \/ DedupeReturns

SpecTourism == InitTourism /\ [][NextTourism]_vars

\* C22: when extract_tourism_entities has ended on a page, it has returned,
\* and for every node of an interesting type the list returned holds an
\* entity record with that node's name; for the node {"@type": "Hotel",
\* "name": "Hotel X", "telephone": "123"} that is an entity named "Hotel X".
C22_InterestingNodeYieldsEntity ==
    tpc \in {"returned", "raised"} =>
        /\ tpc = "returned"
        /\ \A i \in 1..Len(t_nodes) :
              t_nodes[i].type \in INTERESTING_TYPES =>
                  \E j \in 1..Len(t_out) :
                      t_out[j] # NoneValue /\ t_out[j].name = t_nodes[i].name

(***************************************************************************)
(* More claims about Core.fetch.                                           *)
(***************************************************************************)
\* The error an attempt failed with: the exception session.get raised, or the
\* error status answered.
ErrorOf(r) == IF r.kind = "exception" THEN "ConnectionError" ELSE "HTTPError"

\* C23: when fetch raises after the attempts are used up, the error it
\* carries is the error of the last failed attempt, whether that attempt met
\* an exception or a 429, 503 or 403 response.
C23_RaisedCarriesLastError ==
    (fpc = "raised" /\ resps # <<>>) => last_err = ErrorOf(resps[Len(resps)])

\* C24: a request that follows another request of the same fetch call, to the
\* same host, is not sent before min_delay_s has passed since that one.  (The
\* attempt that goes on to another attempt sends its request at now, and the
\* next request is sent when its sleep is over, at now'.)
C24_RetriesKeepMinDelay ==
    [][(fpc = "loop" /\ fpc' = "loop") => now' - now >= min_delay_s]_vars

\* C25: a 429 or 503 response takes one attempt, and the sleep that follows
\* it is the Retry-After value when the header is an integer, and otherwise
\* min_delay_s * 2^attempt with the first attempt counted as 1, plus a jitter
\* of at most 1.
C25_RetryAfterOrBackoff ==
    [][(fpc = "loop" /\ Len(resps') = Len(resps) + 1
          /\ resps'[Len(resps')].kind = "response"
          /\ resps'[Len(resps')].status \in {429, 503})
       => LET ra == resps'[Len(resps')].retry_after
              wait_s == IF ra.present /\ ra.int
                        THEN ra.value ELSE min_delay_s * Pow(2, Len(resps'))
          IN  /\ attempt' = attempt + 1 /\ attempt' = Len(resps')
              /\ now' - now \in {wait_s, wait_s + 1}
              /\ fpc' = (IF attempt' <= max_retries THEN "loop" ELSE "raised")]_vars

\* The second attempt was a 503 without Retry-After after a 429 with
\* Retry-After: 3: the sleeps were 3 and min_delay_s * 4, jitter apart.
C25_Witness ==
    /\ Len(resps) = 2 /\ attempt = 2
    /\ resps[1].status = 429 /\ resps[1].retry_after = RaInt(3)
    /\ resps[2].status = 503 /\ ~resps[2].retry_after.present
    /\ now - first_req_at >= 3 + min_delay_s * 4
    /\ now - first_req_at <= 3 + min_delay_s * 4 + 2

(***************************************************************************)
(* More claims about Orchestrator.run_once.                                *)
(***************************************************************************)
NamesOf(outs) == [i \in 1..Len(outs) |-> outs[i].name]

PipelineOrder == <<"fetch">> \o ExtractorNames \o <<"network">>

PositionIn(order, name) == CHOOSE i \in 1..Len(order) : order[i] = name

\* C26 (as the spec states it): the record run_once returns has meta.count
\* equal to the number of its data items and a method chain that is "fetch"
\* followed by the names of the strategies that were run on the page, in the
\* order they were run.
C26_ChainListsStrategiesRun ==
    opc = "returned" =>
        /\ record.meta.count = Len(record.data_items)
        /\ record.meta.method_chain = <<"fetch">> \o NamesOf(o_outs)

\* C26, amended: the record has meta.count equal to the number of its data
\* items, and its method chain starts with "fetch" and then lists, in the
\* pipeline order and once each, exactly the strategies that were run and
\* returned without raising; a strategy that raised is left out.
C26_ChainListsStrategiesReturned ==
    opc = "returned" =>
        LET chain == record.meta.method_chain
        IN  /\ record.meta.count = Len(record.data_items)
            /\ chain[1] = "fetch"
            /\ Tail(chain) = NamesOf(SelectSeq(o_outs, NotRaised))
            /\ \A i \in 1..Len(chain) : \E k \in 1..Len(PipelineOrder) : chain[i] = PipelineOrder[k]
            /\ \A i, j \in 1..Len(chain) :
                  i < j => PositionIn(PipelineOrder, chain[i]) < PositionIn(PipelineOrder, chain[j])

\* A record with data items whose first strategy raised and is not in the
\* chain, the network strategy run and listed last.
C26_Witness ==
    /\ opc = "returned" /\ ~o_fetch_raised
    /\ Len(o_outs) = 5 /\ o_outs[1].raised /\ ~o_outs[2].raised /\ ~o_outs[5].raised
    /\ record.meta.count >= 2
    /\ record.meta.method_chain[2] = ExtractorNames[2]
    /\ record.meta.method_chain[Len(record.meta.method_chain)] = "network"

(***************************************************************************)
(* More claims about the crawl loop.                                       *)
(***************************************************************************)
PassesFilters(u) ==
    /\ u.netloc \in allowed_hosts
    /\ ~(deny_rx.on /\ u.path \in deny_rx.paths)
    /\ allow_rx.on => u.path \in allow_rx.paths

\* C27: every url core.fetch is called for, seeds included, is on an allowed
\* host, does not match the deny pattern and matches the allow pattern when
\* one is set; a url that is dequeued and does not pass is dropped without a
\* request, however it entered the queue.
C27_FetchedPassFilters ==
    /\ [](\A i \in 1..Len(fetched) : PassesFilters(fetched[i]))
    /\ [](cpc = "fetch" => (PassesFilters(url) /\ fetched[Len(fetched)] = url))
    /\ [][(dequeues' = dequeues + 1 /\ ~PassesFilters(url')) => fetched' = fetched]_vars

\* With an allow pattern set, a link outside it was enqueued from a fetched
\* page, dequeued and dropped; a seed the deny pattern matches was dropped
\* too.
C27_Witness ==
    /\ allow_rx.on /\ deny_rx.on /\ Len(fetched) >= 1
    /\ \E u \in seen_urls :
          /\ \A i \in 1..Len(seeds) : seeds[i] # u
          /\ \A i \in 1..Len(fetched) : fetched[i] # u
          /\ u.netloc \in allowed_hosts /\ u.path \notin allow_rx.paths
    /\ \E i \in 1..Len(seeds) :
          /\ seeds[i] \in seen_urls /\ seeds[i].path \in deny_rx.paths
          /\ \A j \in 1..Len(fetched) : fetched[j] # seeds[i]

\* ---------------------------------------------------------------------------
\* html_fetcher.fetch_html: redirects followed by hand, www fallback on SSLError
\* ---------------------------------------------------------------------------

MaxRedirectsBound == 2

\* The urls tried: host a.test with and without www (lower case, no port),
\* paths "", "/", "/x" and "/x/", with and without a fragment.
HHosts == {<<"a", "test">>, <<"www", "a", "test">>}

HPaths == {<<>>, <<"/">>, <<"/", "x">>, <<"/", "x", "/">>}

HUrls == {HUrl(n, p, f) : n \in HHosts, p \in HPaths, f \in {"", "f"}}

\* str.rstrip("/")
RECURSIVE RStripSlash(_)
RStripSlash(path) ==
    IF path # <<>> /\ path[Len(path)] = "/"
    THEN RStripSlash(SubSeq(path, 1, Len(path) - 1))
    ELSE path

\* _canonicalize: no fragment, "/" for an empty path, no trailing slash
\* except for the root.
_canonicalize(u) ==
    LET path == IF u.path = <<>> THEN <<"/">> ELSE u.path
    IN  HUrl(u.netloc, IF path # <<"/">> THEN RStripSlash(path) ELSE path, "")

\* _toggle_www: the host without its leading "www." or with one added, "/"
\* for an empty path, no fragment.
_toggle_www(u) ==
    HUrl(IF Len(u.netloc) > 0 /\ Head(u.netloc) = "www"
         THEN Tail(u.netloc) ELSE <<"www">> \o u.netloc,
         IF u.path = <<>> THEN <<"/">> ELSE u.path, "")

\* A slip: the loop test left out.
InSeenNever(can, seen) == FALSE

\* if can in seen
InSeen(can, seen) == can \in seen

\* The Location header of a redirect: absent, or a url.
NoLocation == [present |-> FALSE, url |-> HUrl(<<>>, <<>>, "")]

Locations == {NoLocation} \cup {[present |-> TRUE, url |-> u] : u \in HUrls}

\* urljoin(current, loc): loc when it is an absolute url, current when loc is
\* None (raise_for_status does not raise for a 3xx status).
HUrlJoin(current, loc) == IF loc.present THEN loc.url ELSE current

HtmlFrame ==
    /\ UNCHANGED <<h_url, max_redirects>>
    /\ UNCHANGED <<fetchVars, crawlVars, extractVars, orchVars, dedupeVars, workerVars,
                   classifyVars, cliVars, sitemapVars, normVars, tourVars, siteVars>>

\* An iteration of the for loop is begun and current is new: seen.add(can),
\* then sess.get(current).
HtmlGet ==
    /\ hpc = "try" /\ h_iter < max_redirects + 1
    /\ ~InSeen(_canonicalize(h_current), h_seen)
    /\ h_seen' = h_seen \cup {_canonicalize(h_current)}
    /\ h_reqs' = Append(h_reqs, [chain |-> h_chain, can |-> _canonicalize(h_current)])
    /\ h_iter' = h_iter + 1
    /\ HtmlFrame

\* can in seen: TooManyRedirects, which no except clause of fetch_html takes.
HtmlLoopDetected ==
    /\ hpc = "try" /\ h_iter < max_redirects + 1
    /\ InSeen(_canonicalize(h_current), h_seen)
    /\ hpc' = "raised" /\ h_err' = "TooManyRedirects"
    /\ UNCHANGED <<h_chain, h_seen, h_current, h_iter, h_reqs>>
    /\ HtmlFrame

\* The for loop is used up.
HtmlExceeded ==
    /\ hpc = "try" /\ h_iter = max_redirects + 1
    /\ hpc' = "raised" /\ h_err' = "TooManyRedirects"
    /\ UNCHANGED <<h_chain, h_seen, h_current, h_iter, h_reqs>>
    /\ HtmlFrame

\* The answer is a redirect: follow Location.
HtmlRedirect ==
    /\ HtmlGet
    /\ \E loc \in Locations : h_current' = HUrlJoin(h_current, loc)
    /\ UNCHANGED <<hpc, h_chain, h_err>>

\* The answer is not a redirect and raise_for_status passes.
HtmlOk ==
    /\ HtmlGet
    /\ hpc' = "returned"
    /\ UNCHANGED <<h_chain, h_current, h_err>>

\* raise_for_status raises, or sess.get raises something else than SSLError.
HtmlOtherError ==
    /\ HtmlGet
    /\ hpc' = "raised" /\ h_err' = "HTTPError"
    /\ UNCHANGED <<h_chain, h_current>>

\* sess.get raises SSLError in _try(url): _try(alt) is started.
HtmlSslFallback ==
    /\ hpc = "try" /\ h_iter < max_redirects + 1 /\ h_chain = 1
    /\ ~InSeen(_canonicalize(h_current), h_seen)
    /\ h_reqs' = Append(h_reqs, [chain |-> h_chain, can |-> _canonicalize(h_current)])
    /\ h_chain' = 2
    /\ h_seen' = {}
    /\ h_current' = _toggle_www(h_url)
    /\ h_iter' = 0
    /\ UNCHANGED <<hpc, h_err>>
    /\ HtmlFrame

\* sess.get raises SSLError in _try(alt): it leaves fetch_html.
HtmlSslRaised ==
    /\ HtmlGet
    /\ h_chain = 2
    /\ hpc' = "raised" /\ h_err' = "SSLError"
    /\ UNCHANGED <<h_chain, h_current>>

InitHtml ==
    /\ CoreIdle /\ CrawlIdle /\ ExtractIdle /\ OrchIdle /\ DedupeIdle /\ WorkersIdle
    /\ ClassifyIdle /\ CliIdle /\ SitemapIdle /\ NormIdle /\ TourIdle /\ SiteIdle
    /\ hpc = "try"
    /\ h_url \in {u \in HUrls : u.fragment = ""}
    /\ max_redirects \in 0..MaxRedirectsBound
    /\ h_chain = 1
    /\ h_seen = {}
    /\ h_current = h_url
    /\ h_iter = 0
    /\ h_reqs = <<>>
    /\ h_err = "None"

NextHtml ==
    \/ HtmlLoopDetected
    \/ HtmlExceeded
    \/ HtmlRedirect
    \/ HtmlOk
    \/ HtmlOtherError
    \/ HtmlSslFallback
    \/ HtmlSslRaised

SpecHtml == InitHtml /\ [][NextHtml]_vars

RequestsOfChain(c) == {i \in 1..Len(h_reqs) : h_reqs[i].chain = c}

\* C28: within one redirect chain fetch_html requests no canonical url
\* twice; when current comes back to a canonical url already requested the
\* call raises TooManyRedirects without a request; a chain makes at most
\* max_redirects + 1 requests, there are at most two chains, the second only
\* after an SSLError in the first, so a call makes at most
\* 2 * (max_redirects + 1) requests, and while it has not ended a step of it
\* can be taken.
C28_NoCanonicalTwice ==
    /\ [](\A i, j \in 1..Len(h_reqs) :
            (i # j /\ h_reqs[i].chain = h_reqs[j].chain) => h_reqs[i].can # h_reqs[j].can)
    /\ [][(hpc = "try" /\ h_iter < max_redirects + 1
            /\ \E i \in RequestsOfChain(h_chain) : h_reqs[i].can = _canonicalize(h_current))
           => (hpc' = "raised" /\ h_err' = "TooManyRedirects" /\ h_reqs' = h_reqs)]_vars
    /\ [](\A c \in {1, 2} : Cardinality(RequestsOfChain(c)) <= max_redirects + 1)
    /\ [](\A i \in 1..Len(h_reqs) : h_reqs[i].chain \in {1, 2})
    /\ [](Len(h_reqs) <= 2 * (max_redirects + 1))
    /\ [][h_chain' # h_chain => (h_chain = 1 /\ h_chain' = 2)]_vars
    /\ [](hpc = "try" => ENABLED NextHtml)

\* Two chains of three requests each with max_redirects = 2: the first met an
\* SSLError at its third request, the second came back to "/x/" after "/x"
\* was requested and raised TooManyRedirects.
C28_Witness ==
    /\ max_redirects = 2 /\ Len(h_reqs) = 5 /\ h_chain = 2
    /\ Cardinality(RequestsOfChain(1)) = 3
    /\ hpc = "raised" /\ h_err = "TooManyRedirects" /\ h_iter < max_redirects + 1
    /\ h_current.path = <<"/", "x", "/">>
    /\ \E i \in RequestsOfChain(2) : h_reqs[i].can = HUrl(h_current.netloc, <<"/", "x">>, "")

\* ---------------------------------------------------------------------------
\* main_site_filtered.crawl_site: the frontier and the visited set
\* ---------------------------------------------------------------------------

MaxSitePages == 2

MaxSitemapUrls == 2

same_host(u, base) == Netloc(u) = Netloc(base)

\* url_passes_filters with --contains alone: no filter passes every url.
url_passes_filters(u, contains) == ~contains.on \/ Search(contains, u)

InSeq(x, seq) == \E i \in 1..Len(seq) : seq[i] = x

\* The loop over seed_urls: [queue, seen_seed] after it.  Every seed tried is
\* an absolute url, taken as it is.
RECURSIVE SeedQueue(_, _, _)
SeedQueue(seed_urls, seen_seed, queue) ==
    IF seed_urls = <<>> THEN queue
    ELSE LET norm == Head(seed_urls)
         IN  IF same_host(norm, v_start_url) /\ norm \notin seen_seed
                    /\ url_passes_filters(norm, v_contains)
             THEN SeedQueue(Tail(seed_urls), seen_seed \cup {norm}, Append(queue, norm))
             ELSE SeedQueue(Tail(seed_urls), seen_seed, queue)

\* A slip: a link is enqueued whether or not it is queued already.
MayEnqueueQueued(link, visited, queue) ==
    /\ link \notin visited /\ same_host(link, v_start_url)
    /\ url_passes_filters(link, v_contains)

\* The tests before queue.append(link).
MayEnqueue(link, visited, queue) ==
    /\ link \notin visited /\ ~InSeq(link, queue) /\ same_host(link, v_start_url)
    /\ url_passes_filters(link, v_contains)

\* The loop over the links of a page.
RECURSIVE SiteEnqueue(_, _, _)
SiteEnqueue(links, visited, queue) ==
    IF links = <<>> THEN queue
    ELSE SiteEnqueue(Tail(links), visited,
                     IF MayEnqueue(Head(links), visited, queue)
                     THEN Append(queue, Head(links)) ELSE queue)

\* What extract_links_from_html(url, html) may return: links of the host of
\* url, each once.
SiteLinkLists(u) ==
    {l \in SeqsUpTo(CrawlUrls, MaxLinks) :
        /\ \A i \in 1..Len(l) : same_host(l[i], u)
        /\ \A i, j \in 1..Len(l) : l[i] = l[j] => i = j}

SiteLoopTest == v_queue # <<>> /\ Cardinality(v_visited) < v_max_pages

SiteFrame ==
    /\ UNCHANGED <<v_start_url, v_seed_urls, v_max_pages, v_contains>>
    /\ UNCHANGED <<fetchVars, crawlVars, extractVars, orchVars, dedupeVars, workerVars,
                   classifyVars, cliVars, sitemapVars, normVars, tourVars, htmlVars>>

\* url = queue.pop(); a url already visited is skipped, a new one is added to
\* visited and fetched.
CrawlSitePop ==
    /\ vpc = "loop" /\ SiteLoopTest
    /\ v_url' = v_queue[Len(v_queue)]
    /\ v_queue' = SubSeq(v_queue, 1, Len(v_queue) - 1)
    /\ v_pops' = v_pops + 1
    /\ IF v_queue[Len(v_queue)] \in v_visited
       THEN UNCHANGED <<vpc, v_visited, v_fetched>>
       ELSE /\ v_visited' = v_visited \cup {v_queue[Len(v_queue)]}
            /\ v_fetched' = Append(v_fetched, v_queue[Len(v_queue)])
            /\ vpc' = "fetch"
    /\ SiteFrame

\* fetch_html raises: continue.
CrawlSiteFetchRaises ==
    /\ vpc = "fetch"
    /\ vpc' = "loop"
    /\ UNCHANGED <<v_queue, v_visited, v_url, v_fetched, v_pops>>
    /\ SiteFrame

\* fetch_html returns; the page is processed (a failure there is caught) and
\* its links are enqueued.
CrawlSiteFetchReturns ==
    /\ vpc = "fetch"
    /\ \E links \in SiteLinkLists(v_url) : v_queue' = SiteEnqueue(links, v_visited, v_queue)
    /\ vpc' = "loop"
    /\ UNCHANGED <<v_visited, v_url, v_fetched, v_pops>>
    /\ SiteFrame

\* The loop is left.
CrawlSiteReturn ==
    /\ vpc = "loop" /\ ~SiteLoopTest
    /\ vpc' = "returned"
    /\ UNCHANGED <<v_queue, v_visited, v_url, v_fetched, v_pops>>
    /\ SiteFrame

InitSite ==
    /\ CoreIdle /\ CrawlIdle /\ ExtractIdle /\ OrchIdle /\ DedupeIdle /\ WorkersIdle
    /\ ClassifyIdle /\ CliIdle /\ SitemapIdle /\ NormIdle /\ TourIdle /\ HtmlIdle
    /\ vpc = "loop"
    /\ v_start_url = Url("http", "a.test", "/")
    /\ \E sm \in SeqsUpTo(CrawlUrls, MaxSitemapUrls) : v_seed_urls = <<v_start_url>> \o sm
    /\ v_max_pages \in 0..MaxSitePages
    /\ v_contains \in {NoRx, Rx({"/hotel", "/doc.pdf"})}
    /\ v_queue = SeedQueue(v_seed_urls, {}, <<>>)
    /\ v_visited = {}
    /\ v_url = v_start_url
    /\ v_fetched = <<>>
    /\ v_pops = 0

NextSite == CrawlSitePop \/ CrawlSiteFetchRaises \/ CrawlSiteFetchReturns \/ CrawlSiteReturn

SpecSite == InitSite /\ [][NextSite]_vars

\* C29: the queue of crawl_site never holds a url twice and never holds a
\* visited url; so every queue.pop() gives a url that is not in visited, which
\* is then fetched, no url is fetched twice, and at most max_pages urls are
\* fetched.
C29_FrontierDistinctUnvisited ==
    /\ [](\A i, j \in 1..Len(v_queue) : v_queue[i] = v_queue[j] => i = j)
    /\ [](\A i \in 1..Len(v_queue) : v_queue[i] \notin v_visited)
    /\ [][v_pops' = v_pops + 1 =>
            (v_url' \notin v_visited /\ v_fetched' = Append(v_fetched, v_url'))]_vars
    /\ [](\A i, j \in 1..Len(v_fetched) : v_fetched[i] = v_fetched[j] => i = j)
    /\ [](Len(v_fetched) <= v_max_pages /\ Len(v_fetched) = v_pops)

\* A sitemap named one url twice; two pages were fetched and the crawl ended
\* at max_pages with one url, a seed, queued once and not visited.
C29_Witness ==
    /\ vpc = "returned" /\ v_max_pages = 2 /\ Len(v_fetched) = 2
    /\ Len(v_seed_urls) = 3 /\ v_seed_urls[2] = v_seed_urls[3]
    /\ Len(v_queue) = 1 /\ v_queue[1] \notin v_visited
    /\ \E i \in 1..Len(v_seed_urls) : v_seed_urls[i] = v_queue[1]

(***************************************************************************)
(* SpecCrawlFetch: the crawl loop of crawl_cli with Core.fetch run attempt *)
(* by attempt in place of its outcome.  SpecCrawlFetchLive adds that the   *)
(* process goes on: it is one thread, and every sleep and every request    *)
(* (which has a timeout) ends.                                             *)
(***************************************************************************)
FetchCallState ==
    <<min_delay_s, max_delay_s, max_retries, use_cache, harness, now, robots_cache,
      last_fetch_per_host, http_cache, furl, attempt, last_err, calls, resps, gets,
      throttle_prev, throttle_wait, first_req_at, robots_reads>>

\* core.fetch(url) is entered.
CrawlFetchCall ==
    /\ cpc = "fetch" /\ fpc = "idle"
    /\ FetchCall(url)

\* core.fetch raised, its attempts used up.
CrawlFetchRaised ==
    /\ fpc = "raised"
    /\ FetchRaisesStep
    /\ fpc' = "idle"
    /\ UNCHANGED <<FetchCallState, extractVars, restVars>>

\* core.fetch returned.
CrawlFetchReturned ==
    /\ fpc = "returned"
    /\ FetchReturnsStep
    /\ fpc' = "idle"
    /\ UNCHANGED <<FetchCallState, extractVars, restVars>>

InitCrawlFetch ==
    /\ ExtractIdle /\ RestIdle
    /\ InitCore("crawl")
    /\ min_delay_s = 1 /\ max_delay_s = 1 /\ ~use_cache
    /\ seeds \in {<<Url("http", "a.test", "/doc.pdf"), Url("http", "a.test", "/")>>,
                  <<Url("http", "a.test", "/hotel"), Url("http", "a.test", "/")>>}
    /\ max_pages \in 0..MaxPagesBound
    /\ allow_rx = NoRx
    /\ deny_rx = Rx({"/doc.pdf"})
    /\ allowed_hosts = {Netloc(seeds[i]) : i \in 1..Len(seeds)}
    /\ q = seeds
    /\ q_disc = [i \in 1..Len(seeds) |-> FALSE]
    /\ seen_urls = {}
    /\ pages_crawled = 0
    /\ all_entities = <<>>
    /\ pages_log = <<>>
    /\ cpc = "loop"
    /\ url = seeds[1]
    /\ dequeues = 0
    /\ fetched = <<>>
    /\ failed = {}
    /\ enqueued = <<>>

NextCrawlFetch ==
    \/ SkipSeen
    \/ SkipFiltered
    \/ StartFetch
    \/ CrawlFetchCall
    \/ GetOk
    \/ Get429or503
    \/ GetException
    \/ CrawlFetchRaised
    \/ CrawlFetchReturned
    \/ EnqueueDiscovered
    \/ Finish

SpecCrawlFetch == InitCrawlFetch /\ [][NextCrawlFetch]_vars

SpecCrawlFetchLive == SpecCrawlFetch /\ WF_vars(NextCrawlFetch)

\* C30: the crawl ends, whatever max_pages is and whichever fetches fail;
\* each dequeue either gives a url seen before and leaves seen_urls as it is
\* or adds the url to seen_urls; the queue grows only when the links of a
\* page just fetched with success are enqueued, and that url was new; a
\* fetch call makes at most max_retries + 1 attempts and then ends.
C30_CrawlTerminates ==
    /\ <>(cpc = "done")
    /\ [][dequeues' = dequeues + 1 =>
            \/ url' \in seen_urls /\ seen_urls' = seen_urls
            \/ url' \notin seen_urls /\ seen_urls' = seen_urls \cup {url'}]_vars
    /\ [][Len(q') > Len(q) =>
            /\ cpc = "links" /\ url \notin failed
            /\ fpc = "idle" /\ Len(resps) > 0 /\ resps[Len(resps)].status \in OkStatuses
            /\ fetched[Len(fetched)] = url]_vars
    /\ [](attempt <= max_retries + 1 /\ gets <= max_retries + 1)
    /\ (fpc = "loop") ~> (fpc \in {"returned", "raised"})
    /\ [](calls = Len(fetched) \/ (cpc = "fetch" /\ fpc = "idle" /\ calls + 1 = Len(fetched)))

\* The crawl is over with the queue empty before max_pages was reached: the
\* fetch of the first seed failed after its two attempts, the fetch of the
\* second succeeded at its second attempt.
C30_Witness ==
    /\ cpc = "done" /\ max_pages = 2 /\ pages_crawled = 1 /\ q = <<>>
    /\ Cardinality(failed) = 1 /\ calls = 2
    /\ max_retries = 1 /\ attempt = 2 /\ fpc = "idle"
    /\ resps[Len(resps)].status \in OkStatuses

====
